---- MODULE Spec2Model ----
(***************************************************************************)
(* Verification model of the agent orchestration workflows:                *)
(*   ChatPersonalAssistantWorkflow and PersonalAssistantWorkflow           *)
(*   (supervisor_agent/workflow.py), AgentLoopWorkflow                      *)
(*   (company_research_agent/workflow.py), the decision activities          *)
(*   (activities.py) and the chat CLI (supervisor_agent/run.py).            *)
(* Texts are sequences of one-character strings, so that strip, lower,      *)
(* startswith, slicing and concatenation are computed as Python does.       *)
(***************************************************************************)
EXTENDS Integers, Sequences, FiniteSets, TLC

\* ------------------------------------------------------------------------
\* Bounds of the model (not program constants)
\* ------------------------------------------------------------------------
\* Messages the client submits to one chat session
MaxMessages ==
    2

\* Non-empty decision outputs delivered to one workflow instance
MaxChatEvents ==
    3

MaxPAEvents ==
    3

MaxAgentEvents ==
    3

\* ------------------------------------------------------------------------
\* Python values
\* ------------------------------------------------------------------------
\* Python's None, kept a sequence so that it compares with every text.
NONE ==
    <<"<None>">>

\* Truth value of an Optional[str]: None and "" are falsy.
Truthy(t) ==
    t # NONE /\ t # <<>>

\* `t or d`
OrElse(t, d) ==
    IF Truthy(t) THEN t ELSE d

WS ==
    {" ", "\n", "\t"}

LowerChar(c) ==
    CASE c = "A" -> "a" [] c = "B" -> "b" [] c = "C" -> "c" [] c = "D" -> "d"
      [] c = "E" -> "e" [] c = "F" -> "f" [] c = "G" -> "g" [] c = "H" -> "h"
      [] c = "I" -> "i" [] c = "J" -> "j" [] c = "K" -> "k" [] c = "L" -> "l"
      [] c = "M" -> "m" [] c = "N" -> "n" [] c = "O" -> "o" [] c = "P" -> "p"
      [] c = "Q" -> "q" [] c = "R" -> "r" [] c = "S" -> "s" [] c = "T" -> "t"
      [] c = "U" -> "u" [] c = "V" -> "v" [] c = "W" -> "w" [] c = "X" -> "x"
      [] c = "Y" -> "y" [] c = "Z" -> "z" [] OTHER -> c

\* str.lower()
lower(s) ==
    [i \in 1..Len(s) |-> LowerChar(s[i])]

\* s[n:] with 0-based n
SliceFrom(s, n) ==
    IF n >= Len(s) THEN <<>> ELSE SubSeq(s, n + 1, Len(s))

\* s[:n]
SliceTo(s, n) ==
    IF n >= Len(s) THEN s ELSE SubSeq(s, 1, n)

RECURSIVE lstrip(_)
\* str.lstrip()
lstrip(s) ==
    IF s # <<>> /\ Head(s) \in WS THEN lstrip(Tail(s)) ELSE s

RECURSIVE rstrip(_)
\* str.rstrip()
rstrip(s) ==
    IF s # <<>> /\ s[Len(s)] \in WS THEN rstrip(SubSeq(s, 1, Len(s) - 1)) ELSE s

\* str.strip()
strip(s) ==
    rstrip(lstrip(s))

\* str.startswith(p)
startswith(s, p) ==
    Len(s) >= Len(p) /\ SubSeq(s, 1, Len(p)) = p

\* `sub in s`
Contains(s, sub) ==
    \E i \in 0..(Len(s) - Len(sub)) : SubSeq(s, i + 1, i + Len(sub)) = sub

\* ------------------------------------------------------------------------
\* String literals of the source
\* ------------------------------------------------------------------------
SUPERVISOR_PROMPT ==
    <<"Y","o","u"," ","a","r","e"," ","a"," ","h","e","l","p","f","u","l"," ","p","e","r","s",
      "o","n","a","l"," ","a","s","s","i","s","t","a","n","t"," ","c","o","o","r","d","i","n",
      "a","t","i","n","g"," ","m","u","l","t","i","p","l","e"," ","t","o","o","l","s",".">>

CHAT_TASK_PROMPT ==
    <<"Y","o","u"," ","a","r","e"," ","p","a","r","t","i","c","i","p","a","t","i","n","g"," ",
      "i","n"," ","a","n"," ","o","n","g","o","i","n","g"," ","c","h","a","t"," ","s","e","s",
      "s","i","o","n",".">>

PA_TASK_PROMPT ==
    <<"T","h","e"," ","u","s","e","r"," ","m","a","y"," ","a","s","k"," ","y","o","u"," ","t",
      "o"," ","s","c","h","e","d","u","l","e"," ","m","e","e","t","i","n","g","s",","," ","s",
      "e","n","d"," ","e","m","a","i","l","s",","," ","l","o","o","k"," ","u","p"," ","i","n",
      "f","o","r","m","a","t","i","o","n",","," ","o","r"," ","p","e","r","f","o","r","m"," ",
      "a","l","l"," ","o","f"," ","t","h","e","s","e"," ","i","n"," ","o","n","e"," ","r","e",
      "q","u","e","s","t",".">>

NO_RESPONSE_TEXT ==
    <<"T","h","e"," ","a","s","s","i","s","t","a","n","t"," ","c","o","u","l","d"," ","n","o",
      "t"," ","p","r","o","d","u","c","e"," ","a"," ","r","e","s","p","o","n","s","e",".">>

FINAL_SUMMARY_PREFIX ==
    <<"F","I","N","A","L"," ","S","U","M","M","A","R","Y",":"," ">>

BREAKER_SUFFIX ==
    <<" ","I"," ","u","s","e","d"," ","t","h","e"," ","g","e","t","_","w","e","a","t","h","e",
      "r"," ","t","o","o","l"," ","t","o"," ","r","e","t","r","i","e","v","e"," ","t","h","e",
      "s","e"," ","c","o","n","d","i","t","i","o","n","s"," ","a","n","d"," ","s","t","o","p",
      "p","e","d"," ","c","a","l","l","i","n","g"," ","t","o","o","l","s"," ","o","n","c","e",
      " ","I"," ","h","a","d"," ","a"," ","r","e","l","i","a","b","l","e"," ","r","e","s","u",
      "l","t",".">>

WEATHER_SUCCESS_MARK ==
    <<"C","u","r","r","e","n","t"," ","w","e","a","t","h","e","r"," ","f","o","r">>

TOOL_OUT_PRE ==
    <<"[","T","o","o","l"," ">>

TOOL_OUT_POST ==
    <<" ","o","u","t","p","u","t","]",":"," ">>

MARK_FINAL_SUMMARY ==
    <<"f","i","n","a","l"," ","s","u","m","m","a","r","y">>

MARK_FINAL_ANSWER ==
    <<"f","i","n","a","l"," ","a","n","s","w","e","r">>

MARK_FINAL_ANSWER_COLON ==
    <<"f","i","n","a","l"," ","a","n","s","w","e","r",":">>

NAME_COMPANY_RESEARCH ==
    <<"c","o","m","p","a","n","y","_","r","e","s","e","a","r","c","h">>

NAME_GET_WEATHER ==
    <<"g","e","t","_","w","e","a","t","h","e","r">>

NAME_SCHEDULE_EVENT ==
    <<"s","c","h","e","d","u","l","e","_","e","v","e","n","t">>

KEY_COMPANY ==
    <<"c","o","m","p","a","n","y">>

KEY_COMPANY_NAME ==
    <<"c","o","m","p","a","n","y","_","n","a","m","e">>

KEY_QUERY ==
    <<"q","u","e","r","y">>

KEY_REQUEST ==
    <<"r","e","q","u","e","s","t">>

TXT_REQUEST ==
    <<"s","t","a","n","d","u","p"," ","a","t"," ","9">>

KEY_LOCATION ==
    <<"l","o","c","a","t","i","o","n">>

NO_COMPANY_TEXT ==
    <<"c","o","m","p","a","n","y","_","r","e","s","e","a","r","c","h"," ","t","o","o","l"," ",
      "w","a","s"," ","c","a","l","l","e","d"," ","w","i","t","h","o","u","t"," ","a"," ","'",
      "c","o","m","p","a","n","y","'"," ","a","r","g","u","m","e","n","t",".">>

NO_REPORT_TEXT ==
    <<"T","h","e"," ","c","o","m","p","a","n","y"," ","r","e","s","e","a","r","c","h"," ","a",
      "g","e","n","t"," ","c","o","m","p","l","e","t","e","d"," ","w","i","t","h","o","u","t",
      " ","p","r","o","d","u","c","i","n","g"," ","a"," ","r","e","p","o","r","t","."," ","N",
      "o"," ","a","d","d","i","t","i","o","n","a","l"," ","d","e","t","a","i","l","s"," ","a",
      "r","e"," ","a","v","a","i","l","a","b","l","e",".">>

REPORT_PREFIX ==
    <<"C","o","m","p","a","n","y"," ","r","e","s","e","a","r","c","h"," ","r","e","p","o","r",
      "t"," ","(","m","a","r","k","d","o","w","n"," ","e","x","c","e","r","p","t",")",":","\n",
      "\n">>

ELLIPSIS ==
    <<".",".",".">>

SYSTEM_PROMPT ==
    <<"Y","o","u"," ","a","r","e"," ","a","n"," ","e","x","p","e","r","t"," ","C","o","m","p",
      "e","t","i","t","i","v","e"," ","A","n","a","l","y","s","i","s"," ","A","g","e","n","t",
      ".">>

NON_REPETITION_INSTRUCTIONS ==
    <<"Y","o","u"," ","m","u","s","t"," ","n","o","t"," ","c","a","l","l"," ","a"," ","t","o",
      "o","l"," ","a","g","a","i","n"," ","w","i","t","h"," ","t","h","e"," ","s","a","m","e",
      " ","a","r","g","u","m","e","n","t","s"," ","i","f"," ","i","t"," ","h","a","s"," ","a",
      "l","r","e","a","d","y"," ","s","u","c","c","e","e","d","e","d",","," ","u","n","l","e",
      "s","s"," ","n","e","w"," ","i","n","f","o","r","m","a","t","i","o","n"," ","m","a","k",
      "e","s"," ","t","h","a","t"," ","r","e","s","u","l","t"," ","i","n","v","a","l","i","d",
      ".">>

FINAL_ANSWER_INSTRUCTIONS ==
    <<"\n","\n","W","h","e","n"," ","y","o","u"," ","h","a","v","e"," ","c","o","m","p","l","e",
      "t","e","d"," ","a","l","l"," ","n","e","c","e","s","s","a","r","y"," ","t","o","o","l",
      " ","c","a","l","l","s"," ","a","n","d"," ","a","n","a","l","y","s","i","s"," ","a","n",
      "d"," ","a","r","e"," ","r","e","a","d","y"," ","t","o"," ","g","i","v","e"," ","t","h",
      "e"," ","f","i","n","a","l"," ","r","e","s","u","l","t",","," ","r","e","s","p","o","n",
      "d"," ","w","i","t","h"," ","a"," ","s","i","n","g","l","e"," ","m","e","s","s","a","g",
      "e"," ","s","t","a","r","t","i","n","g"," ","w","i","t","h"," ","'","F","I","N","A","L",
      " ","A","N","S","W","E","R",":","'"," ","f","o","l","l","o","w","e","d"," ","b","y"," ",
      "t","h","e"," ","f","i","n","a","l"," ","r","e","p","o","r","t","."," ">>

MANAGED_AGENT_TASK_PRE ==
    <<"Y","o","u","r"," ","t","a","s","k"," ","i","s"," ","t","o"," ","a","n","a","l","y","z",
      "e"," ","t","h","e"," ","s","t","r","a","t","e","g","i","e","s"," ","o","f"," ","t","h",
      "e"," ","t","o","p"," ","3"," ","c","o","m","p","e","t","i","t","o","r","s"," ","f","o",
      "r"," ">>

MANAGED_AGENT_TASK_POST ==
    <<" ","a","n","d","\n","p","r","o","d","u","c","e"," ","a"," ","c","o","m","p","a","r","i",
      "s","o","n"," ","t","a","b","l","e"," ","w","i","t","h"," ","a","c","t","i","o","n","a",
      "b","l","e"," ","i","n","s","i","g","h","t","s",".">>

PLANNING_PROMPT_INITIAL_PLAN ==
    <<"S","t","e","p","-","b","y","-","s","t","e","p"," ","p","l","a","n",":">>

PLANNING_PROMPT_UPDATE_FACTS_PRE ==
    <<"R","e","a","s","s","e","s","s"," ","f","a","c","t","s"," ","w","i","t","h"," ","n","e",
      "w"," ","i","n","f","o","r","m","a","t","i","o","n",":">>

PLANNING_PROMPT_UPDATE_FACTS_POST ==
    <<"U","p","d","a","t","e","d"," ","f","a","c","t","s"," ","c","o","n","s","i","d","e","r",
      "e","d",".">>

PLANNING_PROMPT_UPDATE_PLAN_PRE ==
    <<"R","e","v","i","s","e"," ","t","h","e"," ","a","n","a","l","y","s","i","s"," ","p","l",
      "a","n"," ","b","a","s","e","d"," ","o","n"," ","n","e","w"," ","d","a","t","a",":">>

PLANNING_PROMPT_UPDATE_PLAN_POST ==
    <<"A","n","a","l","y","s","i","s"," ","p","l","a","n"," ","r","e","v","i","s","e","d",".">>

TXT_FINAL_SUMMARY_OK ==
    <<"F","I","N","A","L"," ","S","U","M","M","A","R","Y",":"," ","o","k">>

TXT_THINKING ==
    <<"h","m">>

TXT_WEATHER_OK ==
    <<"C","u","r","r","e","n","t"," ","w","e","a","t","h","e","r"," ","f","o","r"," ","O","s",
      "l","o",".">>

TXT_WEATHER_FAIL ==
    <<"C","o","u","l","d"," ","n","o","t"," ","f","i","n","d"," ","c","o","o","r","d","i","n",
      "a","t","e","s"," ","f","o","r"," ","'","O","s","l","o","'",".">>

TXT_TOOL_OK ==
    <<"d","o","n","e">>

TXT_OSLO ==
    <<"O","s","l","o">>

TXT_PARIS ==
    <<"P","a","r","i","s">>

\* A location text that repeats the words of a successful get_weather result
TXT_ECHO_LOCATION ==
    <<"C","u","r","r","e","n","t"," ","w","e","a","t","h","e","r"," ","f","o","r"," ","O","s","l","o">>

WEATHER_OK_POST ==
    <<".">>

WEATHER_NOT_FOUND_PRE ==
    <<"C","o","u","l","d"," ","n","o","t"," ","f","i","n","d"," ","c","o","o","r","d","i","n","a","t","e","s"," ","f","o","r"," ","'">>

WEATHER_NOT_FOUND_POST ==
    <<"'",".">>

TXT_ACME ==
    <<"A","c","m","e">>

TXT_NOTE ==
    <<"n","o","t","e">>

TXT_REPORT ==
    <<"#"," ","R">>

TXT_QUERY ==
    <<"Q">>

TXT_FINAL_ANSWER_R ==
    <<"F","i","n","a","l"," ","A","n","s","w","e","r",":"," ","r">>

TXT_FINAL_ANSWER_NOCOLON ==
    <<" ","f","i","n","a","l"," ","a","n","s","w","e","r"," ","-"," ","r">>

TXT_STR_RESP ==
    <<"<","r","e","s","p",">">>

TXT_STR_MSG ==
    <<"<","m","s","g",">">>

TXT_STR_PART ==
    <<"<","p","a","r","t",">">>

TXT_PDF ==
    <<"J","V","B","E","R","i","0","=">>

NAME_BROWSE_PAGE ==
    <<"b","r","o","w","s","e","_","p","a","g","e">>

KEY_URL ==
    <<"u","r","l">>

TXT_URL ==
    <<"u">>

FACTS_LATEST_TOOL ==
    <<"L","a","t","e","s","t"," ","t","o","o","l",":"," ">>

FACTS_ARGUMENTS ==
    <<"A","r","g","u","m","e","n","t","s",":"," ">>

FACTS_RESULT ==
    <<"R","e","s","u","l","t",":","\n">>

PLAN_TOOLS_USED ==
    <<"T","o","o","l","s"," ","u","s","e","d"," ","s","o"," ","f","a","r",":"," ">>

PLAN_COMPLETED ==
    <<"C","o","m","p","l","e","t","e","d"," ","s","t","e","p","s",":"," ","v","a","l","i","d",
      "a","t","i","o","n"," ","i","f"," ","a","n","y"," ","v","a","l","i","d","a","t","e","_",
      "c","o","m","p","a","n","y"," ","c","a","l","l"," ","s","u","c","c","e","e","d","e","d",
      ";"," ","s","e","c","t","o","r"," ","i","d","e","n","t","i","f","i","c","a","t","i","o",
      "n"," ","i","f"," ","i","d","e","n","t","i","f","y","_","s","e","c","t","o","r"," ","s",
      "u","c","c","e","e","d","e","d",";"," ","c","o","m","p","e","t","i","t","o","r"," ","i",
      "d","e","n","t","i","f","i","c","a","t","i","o","n"," ","i","f"," ","i","d","e","n","t",
      "i","f","y","_","c","o","m","p","e","t","i","t","o","r","s"," ","s","u","c","c","e","e",
      "d","e","d",".","\n","\n">>

NL ==
    <<"\n">>

NLNL ==
    <<"\n","\n">>

COMMA_SP ==
    <<","," ">>

\* ------------------------------------------------------------------------
\* Data types
\* ------------------------------------------------------------------------
\* ToolCall(name, arguments); arguments is the dict as its ordered list of
\* <<key, value>> items.
ToolCall(name, arguments) ==
    [name |-> name, arguments |-> arguments]

\* AgentStepOutput.tool_call = None
NoToolCall ==
    [name |-> NONE, arguments |-> <<>>]

\* AgentStepOutput (model_message is never read by a workflow)
AgentStepOutput(is_final, output_text, tool_call) ==
    [is_final |-> is_final, output_text |-> output_text, tool_call |-> tool_call]

\* `if result.tool_call:` / `tool_call is not None`
HasToolCall(out) ==
    out.tool_call.name # NONE

\* dict.get(key), None when the key is absent
RECURSIVE Get(_, _)
Get(arguments, key) ==
    IF arguments = <<>> THEN NONE
    ELSE IF Head(arguments)[1] = key THEN Head(arguments)[2]
    ELSE Get(Tail(arguments), key)

\* ChatResponse(text, turn_index)
ChatResponse(text, ti) ==
    [text |-> text, turn_index |-> ti]

\* A prompt entry of PromptHistory: SystemPrompt, TaskPrompt, UserPrompt,
\* ModelPrompt and BasePrompt(role, text).
Prompt(role, text) ==
    [role |-> role, text |-> text]

\* PromptHistory.add
add(h, entry) ==
    Append(h, entry)

\* PromptHistory.to_messages: role/text pairs in entry order
to_messages(h) ==
    [i \in 1..Len(h) |-> <<h[i].role, h[i].text>>]

\* Variant of the marker test that lower-cases the text without trimming it
is_final_text_NoStrip(text) ==
    LET normalized == lower(text)
    IN  startswith(normalized, MARK_FINAL_SUMMARY) \/ startswith(normalized, MARK_FINAL_ANSWER)

\* ------------------------------------------------------------------------
\* Decision activity of the supervisor (OpenAI branch, config.PROVIDER)
\* ------------------------------------------------------------------------
\* _is_final_text
is_final_text(text) ==
    LET normalized == lower(strip(text))
    IN  startswith(normalized, MARK_FINAL_SUMMARY) \/ startswith(normalized, MARK_FINAL_ANSWER)

\* A chat-completions message: tool_calls is a list of function calls whose
\* arguments are the parsed JSON object, or valid_json = FALSE when
\* json.loads raises; content is the text or None.
FunctionCall(name, arguments, valid_json) ==
    [name |-> name, arguments |-> arguments, valid_json |-> valid_json]

Message(tool_calls, content) ==
    [tool_calls |-> tool_calls, content |-> content]

llm_step_activity(message) ==
    IF message.tool_calls # <<>>
    THEN LET fn == message.tool_calls[1]
             args == IF fn.valid_json THEN fn.arguments ELSE <<>>
         IN  AgentStepOutput(FALSE, NONE, ToolCall(fn.name, args))
    ELSE LET txt == OrElse(message.content, <<>>)
         IN  AgentStepOutput(is_final_text(txt), txt, NoToolCall)

\* ------------------------------------------------------------------------
\* Inputs: what the provider, the tools and the clients can deliver
\* ------------------------------------------------------------------------
SupervisorMessages ==
    { Message(<<>>, TXT_FINAL_SUMMARY_OK),
      Message(<<>>, TXT_THINKING),
      Message(<<>>, NONE),
      Message(<<FunctionCall(NAME_GET_WEATHER, << <<KEY_LOCATION, TXT_OSLO>> >>, TRUE)>>, NONE),
      Message(<<FunctionCall(NAME_SCHEDULE_EVENT, << <<KEY_REQUEST, TXT_REQUEST>> >>, TRUE)>>, NONE),
      Message(<<FunctionCall(NAME_COMPANY_RESEARCH, << <<KEY_COMPANY, TXT_ACME>> >>, TRUE)>>, NONE),
      Message(<<FunctionCall(NAME_COMPANY_RESEARCH, <<>>, FALSE)>>, NONE) }

\* Tool requests whose arguments string is not valid JSON, for tools that
\* take a required parameter
UnparseableMessages ==
    { Message(<<FunctionCall(NAME_SCHEDULE_EVENT, <<>>, FALSE)>>, NONE) }

\* A decision that leaves no trace in the history or the guardrail state
IsEmptyOutput(out) ==
    ~HasToolCall(out) /\ ~Truthy(out.output_text)

\* The required parameter of a registered tool function
RequiredParameter(name) ==
    IF name = NAME_GET_WEATHER THEN KEY_LOCATION ELSE KEY_REQUEST

\* _invoke_tool calls fn(**args): the call raises TypeError when the required
\* parameter of the tool is not among the arguments
tool_raises(tool_call) ==
    Get(tool_call.arguments, RequiredParameter(tool_call.name)) = NONE

\* get_weather: the geocoder finds the location and the conditions are
\* returned, or it finds nothing and the text names the location (its repr)
get_weather(location, found) ==
    IF found
    THEN WEATHER_SUCCESS_MARK \o <<" ">> \o location \o WEATHER_OK_POST
    ELSE WEATHER_NOT_FOUND_PRE \o location \o WEATHER_NOT_FOUND_POST

\* Results of tool_activity for a tool call
ToolResults(tool_call) ==
    IF tool_call.name = NAME_GET_WEATHER
    THEN {get_weather(Get(tool_call.arguments, KEY_LOCATION), found) : found \in BOOLEAN}
    ELSE {TXT_TOOL_OK}

\* A report of blanks only
TXT_BLANK_REPORT ==
    <<" ", "\n">>

\* markdown_report of a finished AgentLoopWorkflow child
ChildReports ==
    {TXT_REPORT, TXT_BLANK_REPORT}

\* The k-th text the client submits; the workflow never inspects a user text
UserText(k) ==
    [i \in 1..k |-> "A"]

SystemNotes ==
    {NONE, TXT_NOTE}

\* ------------------------------------------------------------------------
\* State
\* ------------------------------------------------------------------------
VARIABLES
    wf,                     \* workflow type this instance runs: "none" before start
    pc,                     \* position of the run coroutine
    history,                \* self.history
    pending_messages,       \* self._pending_messages
    latest_response,        \* self._latest_response: <<>> is None, else <<ChatResponse>>
    turn_index,             \* self._turn_index
    closed,                 \* self._closed
    step,                   \* iterations started by the `for` loop of the current turn/request
    last_text,              \* local last_text of run
    tool_calls_this_turn,   \* local tool_calls_this_turn / tool_calls_this_request
    last_weather_result,    \* local last_weather_result
    result,                 \* local result: the step output whose tool is awaited
    tool_calls,             \* PersonalAssistantWorkflow.tool_calls
    steps,                  \* PersonalAssistantWorkflow.steps
    pa_return,              \* value returned by PersonalAssistantWorkflow.run: <<>> until it returns
    tools_used,             \* AgentLoopWorkflow.tools_used
    step_counter,           \* AgentLoopWorkflow.step_counter
    last_output,            \* local last_output: <<>> is None, else <<AgentStepOutput>>
    history_messages,       \* local history_messages
    next_input,             \* local next_input
    agent_return,           \* value returned by AgentLoopWorkflow.run: <<>> until it returns
    submitted,              \* log: texts handed to submit_user_message, in order
    dequeued,               \* log: texts popped from the queue, in order
    published,              \* log: turn_index of every value assigned to _latest_response
    llm_calls,              \* log: decision-activity calls since the current turn/run began
    close_seen,             \* log: "none", or how the first close signal found the session:
                            \*      "idle" (waiting, queue empty) or "busy"
    events,                 \* number of non-empty decision outputs delivered so far
    child_input,            \* _run_company_research_subagent: task of the child workflow
                            \*      being awaited, NONE when no child is awaited
    child_result,           \* _run_company_research_subagent: markdown_report of the result
                            \*      dict last returned by a child, NONE before the first
    subagent_return,        \* value returned by _run_company_research_subagent when it is
                            \*      run on its own: <<>> until it returns
    raised,                 \* the exception that escaped run: <<>> while none did, else
                            \*      <<[call |-> awaited call, cause |-> "failure" | "timeout"]>>
    queried,                \* what the client's last get_latest_response query returned
    cli_pc,                 \* run.py main: "input" at the prompt, "poll" inside the inner
                            \*      loop, "exited" after the break
    last_seen_turn,         \* run.py main: local last_seen_turn
    printed,                \* run.py main: the texts of the `assistant> ` lines, in order
    sent                    \* run.py main: number of submit_user_message signals sent

chatVars ==
    <<pending_messages, latest_response, turn_index, closed>>

loopVars ==
    <<step, last_text, tool_calls_this_turn, last_weather_result, result,
      child_input, child_result>>

\* State outside the three workflow classes
\* The locals of the command-line client
cliVars ==
    <<cli_pc, last_seen_turn, printed, sent>>

auxVars ==
    <<subagent_return, raised, queried, cliVars>>

paVars ==
    <<tool_calls, steps, pa_return>>

agentVars ==
    <<tools_used, step_counter, last_output, history_messages, next_input, agent_return>>

logVars ==
    <<submitted, dequeued, published, llm_calls, close_seen, events>>

max_steps_per_turn ==
    8

tool_budget ==
    3

max_chars ==
    2000

\* ------------------------------------------------------------------------
\* _run_company_research_subagent
\* ------------------------------------------------------------------------
\* Variant of the alias lookup that tries the aliases in the opposite order
company_of_QueryFirst(tool_call) ==
    OrElse(Get(tool_call.arguments, KEY_QUERY),
           OrElse(Get(tool_call.arguments, KEY_COMPANY_NAME),
                  OrElse(Get(tool_call.arguments, KEY_COMPANY), <<>>)))

\* args.get("company") or args.get("company_name") or args.get("query") or ""
company_of(tool_call) ==
    OrElse(Get(tool_call.arguments, KEY_COMPANY),
           OrElse(Get(tool_call.arguments, KEY_COMPANY_NAME),
                  OrElse(Get(tool_call.arguments, KEY_QUERY), <<>>)))

\* Variant of the excerpt that cuts at the budget and then adds the ellipsis
subagent_summary_CutsAtBudget(markdown_report) ==
    LET markdown == strip(OrElse(markdown_report, <<>>))
        snippet  == IF Len(markdown) > max_chars
                    THEN rstrip(SliceTo(markdown, max_chars)) \o ELLIPSIS
                    ELSE markdown
    IN  IF markdown = <<>> THEN NO_REPORT_TEXT ELSE REPORT_PREFIX \o snippet

\* The text returned once the child workflow has delivered markdown_report
subagent_summary(markdown_report) ==
    LET markdown == strip(OrElse(markdown_report, <<>>))
        snippet  == IF Len(markdown) > max_chars
                    THEN rstrip(SliceTo(markdown, max_chars - 3)) \o ELLIPSIS
                    ELSE markdown
    IN  IF markdown = <<>> THEN NO_REPORT_TEXT ELSE REPORT_PREFIX \o snippet

\* Variant of the delegation test that compares with the argument name
\* "company" instead of the tool name
is_delegation_WrongName(tool_name) ==
    tool_name = KEY_COMPANY

\* `if tool_name == "company_research":` the request goes to the sub-agent
\* helper instead of tool_activity
is_delegation(tool_name) ==
    tool_name = NAME_COMPANY_RESEARCH

\* Variant of the repetition guardrail that never reuses the cached result
weather_cached_NoReuse(tool_name, lwr) ==
    tool_name = NAME_GET_WEATHER /\ lwr # NONE /\ FALSE

\* `elif tool_name == "get_weather": if last_weather_result is not None:`
\* the cached result is the tool response and no tool_activity is scheduled
weather_cached(tool_name, lwr) ==
    tool_name = NAME_GET_WEATHER /\ lwr # NONE

\* f"[Tool {name} output]: {tool_response}"
tool_output_text(name, tool_response) ==
    TOOL_OUT_PRE \o name \o TOOL_OUT_POST \o tool_response

\* The synthesized message of the tool-budget circuit breaker
breaker_message(weather) ==
    FINAL_SUMMARY_PREFIX \o weather \o BREAKER_SUFFIX

\* ------------------------------------------------------------------------
\* ChatPersonalAssistantWorkflow
\* ------------------------------------------------------------------------
Init ==
    /\ wf = "none"
    /\ pc = "init"
    /\ history = <<>>
    /\ pending_messages = <<>>
    /\ latest_response = <<>>
    /\ turn_index = 0
    /\ closed = FALSE
    /\ step = 0
    /\ last_text = <<>>
    /\ tool_calls_this_turn = 0
    /\ last_weather_result = NONE
    /\ result = AgentStepOutput(FALSE, NONE, NoToolCall)
    /\ tool_calls = <<>>
    /\ steps = 0
    /\ pa_return = <<>>
    /\ tools_used = <<>>
    /\ step_counter = 0
    /\ last_output = <<>>
    /\ history_messages = <<>>
    /\ next_input = <<>>
    /\ agent_return = <<>>
    /\ submitted = <<>>
    /\ dequeued = <<>>
    /\ published = <<>>
    /\ llm_calls = 0
    /\ close_seen = "none"
    /\ events = 0
    /\ child_input = NONE
    /\ child_result = NONE
    /\ subagent_return = <<>>
    /\ raised = <<>>
    /\ queried = <<>>
    /\ cli_pc = "input"
    /\ last_seen_turn = -1
    /\ printed = <<>>
    /\ sent = 0

\* run, up to the first wait_condition: seed the history
ChatStart(system_note) ==
    /\ wf = "none"
    /\ UNCHANGED <<paVars, agentVars, auxVars>>
    /\ wf' = "chat"
    /\ pc' = "wait"
    /\ history' =
         LET h == add(add(<<>>, Prompt("system", strip(SUPERVISOR_PROMPT))),
                      Prompt("task", CHAT_TASK_PROMPT))
         IN  IF Truthy(system_note) THEN add(h, Prompt("system", system_note)) ELSE h
    /\ UNCHANGED <<chatVars, loopVars, logVars>>

\* Variant of the signal handler that also records the message in the
\* history at once, whatever the main loop is awaiting
submit_user_message_WritesHistory(text) ==
    /\ wf = "chat"
    /\ UNCHANGED <<paVars, agentVars, auxVars>>
    /\ text = UserText(Len(submitted) + 1)
    /\ pc \notin {"done", "failed"}
    /\ Len(submitted) < MaxMessages
    /\ pending_messages' = Append(pending_messages, text)
    /\ submitted' = Append(submitted, text)
    /\ history' = add(history, Prompt("user", text))
    /\ UNCHANGED <<wf, pc, latest_response, turn_index, closed, loopVars,
                   dequeued, published, llm_calls, close_seen, events>>

\* Variant of the signal handler that discards a message arriving after
\* close was signalled
submit_user_message_DropsAfterClose(text) ==
    /\ wf = "chat"
    /\ UNCHANGED <<paVars, agentVars, auxVars>>
    /\ text = UserText(Len(submitted) + 1)
    /\ pc \notin {"done", "failed"}
    /\ Len(submitted) < MaxMessages
    /\ pending_messages' = IF closed THEN pending_messages
                           ELSE Append(pending_messages, text)
    /\ submitted' = Append(submitted, text)
    /\ UNCHANGED <<wf, pc, history, latest_response, turn_index, closed, loopVars,
                   dequeued, published, llm_calls, close_seen, events>>

\* signal submit_user_message
submit_user_message(text) ==
    /\ wf = "chat"
    /\ UNCHANGED <<paVars, agentVars, auxVars>>
    /\ text = UserText(Len(submitted) + 1)
    /\ pc \notin {"done", "failed"}
    /\ Len(submitted) < MaxMessages
    /\ pending_messages' = Append(pending_messages, text)
    /\ submitted' = Append(submitted, text)
    /\ UNCHANGED <<wf, pc, history, latest_response, turn_index, closed, loopVars,
                   dequeued, published, llm_calls, close_seen, events>>

\* Variant of close that ends the session at once instead of leaving the
\* decision to the main loop
close_EndsSession ==
    /\ wf = "chat"
    /\ UNCHANGED <<paVars, agentVars, auxVars>>
    /\ pc \notin {"done", "failed"}
    /\ closed' = TRUE
    /\ pc' = "done"
    /\ close_seen' = IF close_seen # "none" THEN close_seen
                     ELSE IF pc = "wait" /\ pending_messages = <<>> THEN "idle" ELSE "busy"
    /\ UNCHANGED <<wf, history, pending_messages, latest_response, turn_index,
                   loopVars, submitted, dequeued, published, llm_calls, events>>

\* Variant of close that flips the flag, so that a second signal reopens
\* the session
close_Toggles ==
    /\ wf = "chat"
    /\ UNCHANGED <<paVars, agentVars, auxVars>>
    /\ pc \notin {"done", "failed"}
    /\ closed' = ~closed
    /\ close_seen' = IF close_seen # "none" THEN close_seen
                     ELSE IF pc = "wait" /\ pending_messages = <<>> THEN "idle" ELSE "busy"
    /\ UNCHANGED <<wf, pc, history, pending_messages, latest_response, turn_index,
                   loopVars, submitted, dequeued, published, llm_calls, events>>

\* signal close
close ==
    /\ wf = "chat"
    /\ UNCHANGED <<paVars, agentVars, auxVars>>
    /\ pc \notin {"done", "failed"}
    /\ closed' = TRUE
    /\ close_seen' = IF close_seen # "none" THEN close_seen
                     ELSE IF pc = "wait" /\ pending_messages = <<>> THEN "idle" ELSE "busy"
    /\ UNCHANGED <<wf, pc, history, pending_messages, latest_response, turn_index,
                   loopVars, submitted, dequeued, published, llm_calls, events>>

\* wait_condition(lambda: bool(self._pending_messages) or self._closed) is met
ChatWake ==
    /\ wf = "chat"
    /\ UNCHANGED <<paVars, agentVars, auxVars>>
    /\ pc = "wait"
    /\ pending_messages # <<>> \/ closed
    /\ pc' = "check"
    /\ UNCHANGED <<wf, history, chatVars, loopVars, logVars>>

\* Variant of the close check that does not look at the queue
ChatReturn_IgnoresQueue ==
    /\ wf = "chat"
    /\ UNCHANGED <<paVars, agentVars, auxVars>>
    /\ pc = "check"
    /\ closed
    /\ pc' = "done"
    /\ UNCHANGED <<wf, history, chatVars, loopVars, logVars>>

\* `if self._closed and not self._pending_messages: return`
ChatReturn ==
    /\ wf = "chat"
    /\ UNCHANGED <<paVars, agentVars, auxVars>>
    /\ pc = "check"
    /\ closed /\ pending_messages = <<>>
    /\ pc' = "done"
    /\ UNCHANGED <<wf, history, chatVars, loopVars, logVars>>

\* Variant of the dequeue step that pops the newest message: pop() for pop(0)
ChatDequeue_PopsLast ==
    /\ wf = "chat"
    /\ UNCHANGED <<paVars, agentVars, auxVars>>
    /\ pc = "check"
    /\ ~(closed /\ pending_messages = <<>>)
    /\ pending_messages # <<>>
    /\ LET message == pending_messages[Len(pending_messages)]
       IN  /\ pending_messages' = SubSeq(pending_messages, 1, Len(pending_messages) - 1)
           /\ turn_index' = turn_index + 1
           /\ history' = add(history, Prompt("user", message))
           /\ dequeued' = Append(dequeued, message)
    /\ last_text' = <<>>
    /\ tool_calls_this_turn' = 0
    /\ last_weather_result' = NONE
    /\ step' = 0
    /\ pc' = "llm"
    /\ llm_calls' = 0
    /\ UNCHANGED <<wf, latest_response, closed, result, child_input, child_result,
                   submitted, published, close_seen, events>>

\* Variant of the dequeue step that keeps last_text of the previous turn
ChatDequeue_KeepsLastText ==
    /\ wf = "chat"
    /\ UNCHANGED <<paVars, agentVars, auxVars>>
    /\ pc = "check"
    /\ ~(closed /\ pending_messages = <<>>)
    /\ pending_messages # <<>>
    /\ LET message == Head(pending_messages)
       IN  /\ pending_messages' = Tail(pending_messages)
           /\ turn_index' = turn_index + 1
           /\ history' = add(history, Prompt("user", message))
           /\ dequeued' = Append(dequeued, message)
    /\ UNCHANGED last_text
    /\ tool_calls_this_turn' = 0
    /\ last_weather_result' = NONE
    /\ step' = 0
    /\ pc' = "llm"
    /\ llm_calls' = 0
    /\ UNCHANGED <<wf, latest_response, closed, result, child_input, child_result,
                   submitted, published, close_seen, events>>

\* Variant of the dequeue step that reads the head and leaves it queued
\* for the duration of its turn: pending_messages[0] for pop(0)
ChatDequeue_PeeksHead ==
    /\ wf = "chat"
    /\ UNCHANGED <<paVars, agentVars, auxVars>>
    /\ pc = "check"
    /\ ~(closed /\ pending_messages = <<>>)
    /\ pending_messages # <<>>
    /\ LET message == Head(pending_messages)
       IN  /\ pending_messages' = pending_messages
           /\ turn_index' = turn_index + 1
           /\ history' = add(history, Prompt("user", message))
           /\ dequeued' = Append(dequeued, message)
    /\ last_text' = <<>>
    /\ tool_calls_this_turn' = 0
    /\ last_weather_result' = NONE
    /\ step' = 0
    /\ pc' = "llm"
    /\ llm_calls' = 0
    /\ UNCHANGED <<wf, latest_response, closed, result, child_input, child_result,
                   submitted, published, close_seen, events>>

\* Variant of the dequeue step that starts every turn from a fresh history
ChatDequeue_ResetsHistory ==
    /\ wf = "chat"
    /\ UNCHANGED <<paVars, agentVars, auxVars>>
    /\ pc = "check"
    /\ ~(closed /\ pending_messages = <<>>)
    /\ pending_messages # <<>>
    /\ LET message == Head(pending_messages)
       IN  /\ pending_messages' = Tail(pending_messages)
           /\ turn_index' = turn_index + 1
           /\ history' = add(<<>>, Prompt("user", message))
           /\ dequeued' = Append(dequeued, message)
    /\ last_text' = <<>>
    /\ tool_calls_this_turn' = 0
    /\ last_weather_result' = NONE
    /\ step' = 0
    /\ pc' = "llm"
    /\ llm_calls' = 0
    /\ UNCHANGED <<wf, latest_response, closed, result, child_input, child_result,
                   submitted, published, close_seen, events>>

\* Variant of the dequeue step that carries the guardrail locals of the
\* previous turn over: tool_calls_this_turn and last_weather_result are
\* initialised once, before the session loop
ChatDequeue_KeepsGuardrails ==
    /\ wf = "chat"
    /\ UNCHANGED <<paVars, agentVars, auxVars>>
    /\ pc = "check"
    /\ ~(closed /\ pending_messages = <<>>)
    /\ pending_messages # <<>>
    /\ LET message == Head(pending_messages)
       IN  /\ pending_messages' = Tail(pending_messages)
           /\ turn_index' = turn_index + 1
           /\ history' = add(history, Prompt("user", message))
           /\ dequeued' = Append(dequeued, message)
    /\ last_text' = <<>>
    /\ UNCHANGED <<tool_calls_this_turn, last_weather_result>>
    /\ step' = 0
    /\ pc' = "llm"
    /\ llm_calls' = 0
    /\ UNCHANGED <<wf, latest_response, closed, result, child_input, child_result,
                   submitted, published, close_seen, events>>

\* Variant of the dequeue step that leaves the turn counter alone
ChatDequeue_NoIncrement ==
    /\ wf = "chat"
    /\ UNCHANGED <<paVars, agentVars, auxVars>>
    /\ pc = "check"
    /\ ~(closed /\ pending_messages = <<>>)
    /\ pending_messages # <<>>
    /\ LET message == Head(pending_messages)
       IN  /\ pending_messages' = Tail(pending_messages)
           /\ turn_index' = turn_index
           /\ history' = add(history, Prompt("user", message))
           /\ dequeued' = Append(dequeued, message)
    /\ last_text' = <<>>
    /\ tool_calls_this_turn' = 0
    /\ last_weather_result' = NONE
    /\ step' = 0
    /\ pc' = "llm"
    /\ llm_calls' = 0
    /\ UNCHANGED <<wf, latest_response, closed, result, child_input, child_result,
                   submitted, published, close_seen, events>>

\* pop(0), increment the turn counter, append the user prompt, reset the
\* guardrail locals and enter the step loop
ChatDequeue ==
    /\ wf = "chat"
    /\ UNCHANGED <<paVars, agentVars, auxVars>>
    /\ pc = "check"
    /\ ~(closed /\ pending_messages = <<>>)
    /\ pending_messages # <<>>
    /\ LET message == Head(pending_messages)
       IN  /\ pending_messages' = Tail(pending_messages)
           /\ turn_index' = turn_index + 1
           /\ history' = add(history, Prompt("user", message))
           /\ dequeued' = Append(dequeued, message)
    /\ last_text' = <<>>
    /\ tool_calls_this_turn' = 0
    /\ last_weather_result' = NONE
    /\ step' = 0
    /\ pc' = "llm"
    /\ llm_calls' = 0
    /\ UNCHANGED <<wf, latest_response, closed, result, child_input, child_result,
                   submitted, published, close_seen, events>>

\* Variant of the loop tail that assigns _latest_response inside the loop
\* body, at the end of every iteration
ChatLoopTail_PublishesEveryStep(h, lt, lwr, brk) ==
    /\ history' = h
    /\ last_text' = lt
    /\ last_weather_result' = lwr
    /\ LET final_text == OrElse(lt, NO_RESPONSE_TEXT)
           response   == ChatResponse(final_text, turn_index)
       IN  /\ latest_response' = <<response>>
           /\ published' = Append(published, response.turn_index)
    /\ pc' = IF brk \/ step' = max_steps_per_turn THEN "wait" ELSE "llm"

\* The rest of a loop iteration after its last await: h, lt, lwr are the new
\* history, last_text and last_weather_result, brk tells whether the body
\* executed `break`.  When the loop ends the response is published.
ChatLoopTail(h, lt, lwr, brk) ==
    /\ history' = h
    /\ last_text' = lt
    /\ last_weather_result' = lwr
    /\ IF brk \/ step' = max_steps_per_turn
       THEN LET final_text == OrElse(lt, NO_RESPONSE_TEXT)
                response   == ChatResponse(final_text, turn_index)
            IN  /\ latest_response' = <<response>>
                /\ published' = Append(published, response.turn_index)
                /\ pc' = "wait"
       ELSE /\ pc' = "llm"
            /\ UNCHANGED <<latest_response, published>>

\* Variant of the tool budget that trips one tool call late: > for >=
ChatAfterTool_BudgetOffByOne(tool_call, tool_response, lwr) ==
    LET h == add(history, Prompt("user", tool_output_text(tool_call.name, tool_response)))
    IN  IF tool_calls_this_turn' > tool_budget /\ lwr # NONE
        THEN ChatLoopTail(h, breaker_message(lwr), lwr, TRUE)
        ELSE ChatLoopTail(h, last_text, lwr, FALSE)

\* After tool_response is known: append the tool output, apply the tool budget
ChatAfterTool(tool_call, tool_response, lwr) ==
    LET h == add(history, Prompt("user", tool_output_text(tool_call.name, tool_response)))
    IN  IF tool_calls_this_turn' >= tool_budget /\ lwr # NONE
        THEN ChatLoopTail(h, breaker_message(lwr), lwr, TRUE)
        ELSE ChatLoopTail(h, last_text, lwr, FALSE)

\* The loop body from the decision result out to the next await or the end
\* of the iteration
ChatStep(out) ==
    /\ wf = "chat"
    /\ UNCHANGED <<paVars, agentVars, auxVars>>
    /\ pc = "llm"
    /\ IsEmptyOutput(out) \/ events < MaxChatEvents
    /\ events' = IF IsEmptyOutput(out) THEN events ELSE events + 1
    /\ step' = step + 1
    /\ llm_calls' = llm_calls + 1
    /\ result' = out
    /\ IF HasToolCall(out)
       THEN /\ tool_calls_this_turn' = tool_calls_this_turn + 1
            /\ IF is_delegation(out.tool_call.name)
               THEN IF ~Truthy(company_of(out.tool_call))
                    THEN /\ ChatAfterTool(out.tool_call, NO_COMPANY_TEXT, last_weather_result)
                         /\ UNCHANGED child_input
                    ELSE /\ pc' = "child"
                         /\ child_input' = company_of(out.tool_call)
                         /\ UNCHANGED <<history, last_text, last_weather_result,
                                        latest_response, published>>
               ELSE /\ UNCHANGED child_input
                    /\ IF weather_cached(out.tool_call.name, last_weather_result)
                       THEN ChatAfterTool(out.tool_call, last_weather_result,
                                        last_weather_result)
                       ELSE /\ pc' = "tool"
                            /\ UNCHANGED <<history, last_text, last_weather_result,
                                           latest_response, published>>
       ELSE /\ UNCHANGED <<tool_calls_this_turn, child_input>>
            /\ IF Truthy(out.output_text)
               THEN ChatLoopTail(add(history, Prompt("model", out.output_text)),
                                 out.output_text, last_weather_result, out.is_final)
               ELSE ChatLoopTail(history, last_text, last_weather_result, FALSE)
    /\ UNCHANGED <<wf, pending_messages, turn_index, closed, child_result,
                   submitted, dequeued, close_seen>>

\* llm_step_activity returns
ChatLlmStep(message) ==
    ChatStep(llm_step_activity(message))

\* tool_activity returns tool_response
ChatToolResult(tool_response) ==
    /\ wf = "chat"
    /\ UNCHANGED <<paVars, agentVars, auxVars>>
    /\ pc = "tool"
    /\ UNCHANGED <<wf, pending_messages, turn_index, closed, step, tool_calls_this_turn,
                   result, child_input, child_result,
                   submitted, dequeued, llm_calls, close_seen, events>>
    /\ ~tool_raises(result.tool_call)
    /\ tool_response \in ToolResults(result.tool_call)
    /\ LET lwr == IF /\ result.tool_call.name = NAME_GET_WEATHER
                     /\ Contains(tool_response, WEATHER_SUCCESS_MARK)
                  THEN tool_response ELSE last_weather_result
       IN  ChatAfterTool(result.tool_call, tool_response, lwr)

\* Variant of the child's return that hands the nested report itself to the
\* parent history instead of the helper's summary text
ChatChildResult_RawReport(markdown_report) ==
    /\ wf = "chat"
    /\ UNCHANGED <<paVars, agentVars, auxVars>>
    /\ pc = "child"
    /\ UNCHANGED <<wf, pending_messages, turn_index, closed, step, tool_calls_this_turn,
                   result, submitted, dequeued, llm_calls, close_seen, events>>
    /\ child_input' = NONE
    /\ child_result' = markdown_report
    /\ ChatAfterTool(result.tool_call, markdown_report, last_weather_result)

\* the AgentLoopWorkflow child returns its result dict
ChatChildResult(markdown_report) ==
    /\ wf = "chat"
    /\ UNCHANGED <<paVars, agentVars, auxVars>>
    /\ pc = "child"
    /\ UNCHANGED <<wf, pending_messages, turn_index, closed, step, tool_calls_this_turn,
                   result, submitted, dequeued, llm_calls, close_seen, events>>
    /\ child_input' = NONE
    /\ child_result' = markdown_report
    /\ ChatAfterTool(result.tool_call, subagent_summary(markdown_report), last_weather_result)

\* Variant of the query that hands the response over and clears it
get_latest_response_Consumes ==
    /\ wf = "chat"
    /\ queried' = latest_response
    /\ latest_response' = <<>>
    /\ UNCHANGED <<wf, pc, history, pending_messages, turn_index, closed, loopVars,
                   paVars, agentVars, logVars, subagent_return, raised, cliVars>>

\* query get_latest_response: `return self._latest_response`; queried is the
\* value the client receives.  A query is answered at any point between two
\* steps of run, also after run has returned.
get_latest_response ==
    /\ wf = "chat"
    /\ queried' = latest_response
    /\ UNCHANGED <<wf, pc, history, chatVars, loopVars, paVars, agentVars, logVars,
                   subagent_return, raised, cliVars>>

ChatNext ==
    \/ \E note \in SystemNotes : ChatStart(note)
    \/ \E text \in {UserText(k) : k \in 1..MaxMessages} : submit_user_message(text)
    \/ close
    \/ ChatWake
    \/ ChatReturn
    \/ ChatDequeue
    \/ \E message \in SupervisorMessages : ChatLlmStep(message)
    \/ \E r \in {TXT_WEATHER_OK, TXT_WEATHER_FAIL, TXT_TOOL_OK} : ChatToolResult(r)
    \/ \E report \in ChildReports : ChatChildResult(report)

\* ------------------------------------------------------------------------
\* run.py: the command-line client of one chat session
\* ------------------------------------------------------------------------
\* input() raised EOFError
EOF ==
    <<"<EOF>">>

TXT_EXIT ==
    <<"e","x","i","t">>

TXT_QUIT ==
    <<"q","u","i","t">>

\* The lines the user may type at the prompt before the k-th message is
\* sent: nothing, blanks, a way to leave, the end of input, or the message
InputLines(k) ==
    {EOF, <<>>, <<" ">>, TXT_EXIT, <<" ", "Q", "u", "i", "t">>, <<" ">> \o UserText(k) \o <<" ">>}

\* The text of the `assistant> ` line: `response.text or ""` without a
\* leading "FINAL SUMMARY: "
assistant_line(response_text) ==
    LET text == OrElse(response_text, <<>>)
        prefix == FINAL_SUMMARY_PREFIX
    IN  IF startswith(text, prefix) THEN lstrip(SliceFrom(text, Len(prefix))) ELSE text

\* One pass of the outer loop up to the signal: an empty line is skipped,
\* exit, quit or the end of input sends close and leaves the loop, any
\* other text is sent with submit_user_message and the client starts
\* polling.  handle.signal returns once the service has accepted the signal;
\* the workflow handles it in a later step.
cli_input(line) ==
    /\ cli_pc = "input"
    /\ LET user_text == IF line = EOF THEN TXT_EXIT ELSE strip(line)
       IN  IF ~Truthy(user_text)
           THEN UNCHANGED <<cli_pc, sent>>
           ELSE IF lower(user_text) \in {TXT_EXIT, TXT_QUIT}
           THEN /\ cli_pc' = "exited"
                /\ UNCHANGED sent
           ELSE /\ sent < MaxMessages
                /\ user_text = UserText(sent + 1)
                /\ sent' = sent + 1
                /\ cli_pc' = "poll"
    /\ UNCHANGED <<wf, pc, history, chatVars, loopVars, paVars, agentVars, logVars,
                   subagent_return, raised, queried, last_seen_turn, printed>>

\* Variant of the polling loop that accepts a response of the turn it has
\* already shown
cli_poll_AcceptsSeenTurn ==
    /\ wf = "chat"
    /\ cli_pc = "poll"
    /\ queried' = latest_response
    /\ LET response == latest_response
       IN  IF response # <<>> /\ response[1].turn_index >= last_seen_turn
           THEN /\ printed' = Append(printed, assistant_line(response[1].text))
                /\ last_seen_turn' = response[1].turn_index
                /\ cli_pc' = "input"
           ELSE UNCHANGED <<cli_pc, last_seen_turn, printed>>
    /\ UNCHANGED <<wf, pc, history, chatVars, loopVars, paVars, agentVars, logVars,
                   subagent_return, raised, sent>>

\* One pass of the inner loop: the query get_latest_response is answered
\* with self._latest_response; a response of a turn above last_seen_turn is
\* printed and ends the loop, anything else is followed by a sleep and
\* another pass.  A query that raises RPCError is followed by a sleep and
\* another pass as well and changes nothing.
cli_poll ==
    /\ wf = "chat"
    /\ cli_pc = "poll"
    /\ queried' = latest_response
    /\ LET response == latest_response
       IN  IF response # <<>> /\ response[1].turn_index > last_seen_turn
           THEN /\ printed' = Append(printed, assistant_line(response[1].text))
                /\ last_seen_turn' = response[1].turn_index
                /\ cli_pc' = "input"
           ELSE UNCHANGED <<cli_pc, last_seen_turn, printed>>
    /\ UNCHANGED <<wf, pc, history, chatVars, loopVars, paVars, agentVars, logVars,
                   subagent_return, raised, sent>>

\* The service delivers the signals the client has sent, in the order sent
CliSignalDelivered ==
    \/ Len(submitted) < sent /\ submit_user_message(UserText(Len(submitted) + 1))
    \/ cli_pc = "exited" /\ Len(submitted) = sent /\ ~closed /\ close

\* A chat session driven by the client alone
CliNext ==
    \/ \E note \in SystemNotes : ChatStart(note)
    \/ \E line \in InputLines(sent + 1) : cli_input(line)
    \/ cli_poll
    \/ CliSignalDelivered
    \/ ChatWake
    \/ ChatReturn
    \/ ChatDequeue
    \/ \E message \in SupervisorMessages : ChatLlmStep(message)
    \/ \E r \in {TXT_WEATHER_OK, TXT_WEATHER_FAIL, TXT_TOOL_OK} : ChatToolResult(r)
    \/ \E report \in ChildReports : ChatChildResult(report)

\* ------------------------------------------------------------------------
\* PersonalAssistantWorkflow
\* ------------------------------------------------------------------------
pa_max_steps ==
    100

\* PersonalAssistantResult
PersonalAssistantResult(final_response, calls_made, n) ==
    [final_response |-> final_response, tool_calls |-> calls_made, steps |-> n]

Queries ==
    {TXT_QUERY}

\* run up to the first decision call: seed the history, enter the loop
PAStart(query) ==
    /\ wf = "none"
    /\ UNCHANGED <<chatVars, agentVars, auxVars>>
    /\ wf' = "pa"
    /\ history' = add(add(add(<<>>, Prompt("system", strip(SUPERVISOR_PROMPT))),
                          Prompt("task", PA_TASK_PROMPT)),
                      Prompt("user", query))
    /\ last_text' = <<>>
    /\ tool_calls_this_turn' = 0
    /\ last_weather_result' = NONE
    /\ steps' = 1
    /\ pc' = "llm"
    /\ llm_calls' = 0
    /\ UNCHANGED <<step, result, child_input, child_result, tool_calls, pa_return,
                   submitted, dequeued, published, close_seen, events>>

\* Variant of the loop tail whose range is one step longer
PALoopTail_OneMoreStep(h, lt, lwr, brk) ==
    /\ history' = h
    /\ last_text' = lt
    /\ last_weather_result' = lwr
    /\ IF brk \/ steps = pa_max_steps + 1
       THEN /\ pa_return' = <<PersonalAssistantResult(OrElse(lt, NO_RESPONSE_TEXT),
                                                      tool_calls', steps)>>
            /\ pc' = "done"
            /\ UNCHANGED steps
       ELSE /\ steps' = steps + 1
            /\ pc' = "llm"
            /\ UNCHANGED pa_return

\* The rest of a loop iteration after its last await: the next iteration
\* starts, or the loop is left (break or range exhausted) and run returns.
PALoopTail(h, lt, lwr, brk) ==
    /\ history' = h
    /\ last_text' = lt
    /\ last_weather_result' = lwr
    /\ IF brk \/ steps = pa_max_steps
       THEN /\ pa_return' = <<PersonalAssistantResult(OrElse(lt, NO_RESPONSE_TEXT),
                                                      tool_calls', steps)>>
            /\ pc' = "done"
            /\ UNCHANGED steps
       ELSE /\ steps' = steps + 1
            /\ pc' = "llm"
            /\ UNCHANGED pa_return

\* After tool_response is known: append the tool output, apply the tool budget
PAAfterTool(tool_call, tool_response, lwr) ==
    LET h == add(history, Prompt("user", tool_output_text(tool_call.name, tool_response)))
    IN  IF tool_calls_this_turn' >= tool_budget /\ lwr # NONE
        THEN /\ history' = h
             /\ last_weather_result' = lwr
             /\ pa_return' = <<PersonalAssistantResult(breaker_message(lwr), tool_calls', steps)>>
             /\ pc' = "done"
             /\ UNCHANGED <<last_text, steps>>
        ELSE PALoopTail(h, last_text, lwr, FALSE)

\* The loop body from the decision result out to the next await or the end
\* of the iteration
PAStep(out) ==
    /\ wf = "pa"
    /\ pc = "llm"
    /\ UNCHANGED <<chatVars, agentVars, auxVars>>
    /\ IsEmptyOutput(out) \/ events < MaxPAEvents
    /\ events' = IF IsEmptyOutput(out) THEN events ELSE events + 1
    /\ llm_calls' = llm_calls + 1
    /\ result' = out
    /\ IF HasToolCall(out)
       THEN /\ tool_calls' = Append(tool_calls, out.tool_call)
            /\ tool_calls_this_turn' = tool_calls_this_turn + 1
            /\ IF is_delegation(out.tool_call.name)
               THEN IF ~Truthy(company_of(out.tool_call))
                    THEN /\ PAAfterTool(out.tool_call, NO_COMPANY_TEXT, last_weather_result)
                         /\ UNCHANGED child_input
                    ELSE /\ pc' = "child"
                         /\ child_input' = company_of(out.tool_call)
                         /\ UNCHANGED <<history, last_text, last_weather_result,
                                        steps, pa_return>>
               ELSE /\ UNCHANGED child_input
                    /\ IF weather_cached(out.tool_call.name, last_weather_result)
                       THEN PAAfterTool(out.tool_call, last_weather_result,
                                        last_weather_result)
                       ELSE /\ pc' = "tool"
                            /\ UNCHANGED <<history, last_text, last_weather_result,
                                           steps, pa_return>>
       ELSE /\ UNCHANGED <<tool_calls, tool_calls_this_turn, child_input>>
            /\ IF Truthy(out.output_text)
               THEN PALoopTail(add(history, Prompt("model", out.output_text)),
                               out.output_text, last_weather_result, out.is_final)
               ELSE PALoopTail(history, last_text, last_weather_result, FALSE)
    /\ UNCHANGED <<wf, step, child_result, submitted, dequeued, published, close_seen>>

\* llm_step_activity returns
PALlmStep(message) ==
    PAStep(llm_step_activity(message))

\* tool_activity returns tool_response
PAToolResult(tool_response) ==
    /\ wf = "pa"
    /\ pc = "tool"
    /\ UNCHANGED <<chatVars, agentVars, auxVars>>
    /\ UNCHANGED <<wf, step, tool_calls_this_turn, result, child_input, child_result,
                   tool_calls, logVars>>
    /\ ~tool_raises(result.tool_call)
    /\ tool_response \in ToolResults(result.tool_call)
    /\ LET lwr == IF /\ result.tool_call.name = NAME_GET_WEATHER
                     /\ Contains(tool_response, WEATHER_SUCCESS_MARK)
                  THEN tool_response ELSE last_weather_result
       IN  PAAfterTool(result.tool_call, tool_response, lwr)

\* the AgentLoopWorkflow child returns its result dict
PAChildResult(markdown_report) ==
    /\ wf = "pa"
    /\ pc = "child"
    /\ UNCHANGED <<chatVars, agentVars, auxVars>>
    /\ UNCHANGED <<wf, step, tool_calls_this_turn, result, tool_calls, logVars>>
    /\ child_input' = NONE
    /\ child_result' = markdown_report
    /\ PAAfterTool(result.tool_call, subagent_summary(markdown_report), last_weather_result)

PANext ==
    \/ \E query \in Queries : PAStart(query)
    \/ \E message \in SupervisorMessages : PALlmStep(message)
    \/ \E r \in {TXT_WEATHER_OK, TXT_WEATHER_FAIL, TXT_TOOL_OK} : PAToolResult(r)
    \/ \E report \in ChildReports : PAChildResult(report)

\* ------------------------------------------------------------------------
\* Decision activity of the research agent (Gemini branch, config.PROVIDER)
\* ------------------------------------------------------------------------
\* A generate_content response: candidates is a list, a candidate's content
\* is <<>> (None) or <<[parts |-> list of parts]>>, a part carries
\* function_call (<<>> or <<ToolCall>>) and text (None or a text).
Part(function_call, text) ==
    [function_call |-> function_call, text |-> text]

Candidate(content) ==
    [content |-> content]

Content(parts) ==
    [parts |-> parts]

company_research_llm_step_activity(resp) ==
    IF Len(resp) = 0 \/ Len(resp[1].content) = 0
    THEN AgentStepOutput(FALSE, TXT_STR_RESP, NoToolCall)
    ELSE LET msg == resp[1].content[1]
         IN  IF Len(msg.parts) = 0
             THEN AgentStepOutput(FALSE, TXT_STR_MSG, NoToolCall)
             ELSE LET part == msg.parts[1]
                  IN  IF Len(part.function_call) # 0
                      THEN AgentStepOutput(FALSE, NONE,
                                           ToolCall(part.function_call[1].name,
                                                    part.function_call[1].arguments))
                      ELSE LET txt == IF part.text = NONE THEN TXT_STR_PART ELSE part.text
                               normalized == lower(strip(txt))
                               is_final == \/ startswith(normalized, MARK_FINAL_ANSWER_COLON)
                                           \/ startswith(normalized, MARK_FINAL_ANSWER)
                           IN  AgentStepOutput(is_final, txt, NoToolCall)

TextResponse(text) ==
    <<Candidate(<<Content(<<Part(<<>>, text)>>)>>)>>

ResearchResponses ==
    { TextResponse(TXT_FINAL_ANSWER_R),
      TextResponse(TXT_FINAL_ANSWER_NOCOLON),
      TextResponse(TXT_THINKING),
      TextResponse(<<>>),
      TextResponse(NONE),
      <<>>,
      <<Candidate(<<>>)>>,
      <<Candidate(<<Content(<<>>)>>)>>,
      <<Candidate(<<Content(<<Part(<<ToolCall(NAME_BROWSE_PAGE, << <<KEY_URL, TXT_URL>> >>)>>,
                                   NONE)>>)>>)>> }

Tasks ==
    {TXT_ACME}

PdfResults ==
    {<<>>, TXT_PDF}

\* ------------------------------------------------------------------------
\* AgentLoopWorkflow
\* ------------------------------------------------------------------------
max_steps ==
    30

\* AgentStepInput(task, history)
AgentStepInput(task, messages) ==
    [task |-> task, history |-> messages]

\* The dict returned by run
AgentResult(markdown_report, pdf_base64) ==
    [markdown_report |-> markdown_report, pdf_base64 |-> pdf_base64]

\* str(dict) for a dict of plain strings: {'k': 'v', ...}
RECURSIVE repr_items(_)
repr_items(arguments) ==
    IF arguments = <<>> THEN <<>>
    ELSE <<"'">> \o Head(arguments)[1] \o <<"'", ":", " ", "'">> \o Head(arguments)[2] \o <<"'">>
         \o (IF Tail(arguments) = <<>> THEN <<>> ELSE COMMA_SP \o repr_items(Tail(arguments)))

repr_dict(arguments) ==
    <<"{">> \o repr_items(arguments) \o <<"}">>

\* ', '.join(names)
RECURSIVE join_names(_)
join_names(names) ==
    IF names = <<>> THEN <<>>
    ELSE Head(names) \o (IF Tail(names) = <<>> THEN <<>> ELSE COMMA_SP \o join_names(Tail(names)))

facts_update_text(tool_req, tool_result) ==
    PLANNING_PROMPT_UPDATE_FACTS_PRE \o NLNL
      \o FACTS_LATEST_TOOL \o tool_req.name \o NL
      \o FACTS_ARGUMENTS \o repr_dict(tool_req.arguments) \o NL
      \o FACTS_RESULT \o tool_result \o NLNL
      \o PLANNING_PROMPT_UPDATE_FACTS_POST

plan_update_text(used) ==
    PLANNING_PROMPT_UPDATE_PLAN_PRE \o NLNL
      \o PLAN_TOOLS_USED \o join_names(used) \o NL
      \o PLAN_COMPLETED
      \o PLANNING_PROMPT_UPDATE_PLAN_POST

\* The report of a final step: the FINAL ANSWER marker stripped
final_markdown(output_text) ==
    LET raw_text == OrElse(output_text, <<>>)
        stripped == lstrip(raw_text)
    IN  IF startswith(lower(stripped), MARK_FINAL_ANSWER_COLON)
        THEN lstrip(SliceFrom(stripped, Len(MARK_FINAL_ANSWER_COLON)))
        ELSE raw_text

\* run up to the first decision call
AgentStart(task) ==
    /\ wf = "none"
    /\ UNCHANGED <<chatVars, loopVars, paVars, auxVars>>
    /\ wf' = "agent"
    /\ history' =
         add(add(add(<<>>,
                     Prompt("system", strip(SYSTEM_PROMPT) \o NON_REPETITION_INSTRUCTIONS
                                        \o FINAL_ANSWER_INSTRUCTIONS)),
                 Prompt("task", strip(MANAGED_AGENT_TASK_PRE \o task \o MANAGED_AGENT_TASK_POST))),
             Prompt("user", strip(PLANNING_PROMPT_INITIAL_PLAN)))
    /\ history_messages' = to_messages(history')
    /\ next_input' = <<AgentStepInput(task, history_messages')>>
    /\ last_output' = <<>>
    /\ step_counter' = 1
    /\ pc' = "llm"
    /\ llm_calls' = 0
    /\ UNCHANGED <<tools_used, agent_return, submitted, dequeued, published, close_seen, events>>

\* Variant of the loop end whose range is one step longer:
\* range(1, max_steps + 2)
AgentLoopTail_OneMoreStep ==
    IF step_counter = max_steps + 1
    THEN /\ agent_return' =
              IF Len(last_output') # 0 /\ Truthy(last_output'[1].output_text)
              THEN <<AgentResult(last_output'[1].output_text, <<>>)>>
              ELSE <<AgentResult(<<>>, <<>>)>>
         /\ pc' = "done"
         /\ UNCHANGED step_counter
    ELSE /\ step_counter' = step_counter + 1
         /\ pc' = "llm"
         /\ UNCHANGED agent_return

\* End of a loop iteration: the next iteration starts, or the range is
\* exhausted and run returns the best-effort result.
AgentLoopTail ==
    IF step_counter = max_steps
    THEN /\ agent_return' =
              IF Len(last_output') # 0 /\ Truthy(last_output'[1].output_text)
              THEN <<AgentResult(last_output'[1].output_text, <<>>)>>
              ELSE <<AgentResult(<<>>, <<>>)>>
         /\ pc' = "done"
         /\ UNCHANGED step_counter
    ELSE /\ step_counter' = step_counter + 1
         /\ pc' = "llm"
         /\ UNCHANGED agent_return

\* The loop body from the decision result llm_result to the next await or
\* the end of the iteration
AgentStep(llm_result) ==
    /\ wf = "agent"
    /\ pc = "llm"
    /\ UNCHANGED <<wf, chatVars, loopVars, paVars, auxVars, submitted, dequeued, published, close_seen>>
    /\ LET task == next_input[1].task
       IN  /\ IsEmptyOutput(llm_result) \/ events < MaxAgentEvents
           /\ events' = IF IsEmptyOutput(llm_result) THEN events ELSE events + 1
           /\ llm_calls' = llm_calls + 1
           /\ last_output' = <<llm_result>>
           /\ history' = IF Truthy(llm_result.output_text)
                         THEN add(history, Prompt("assistant", llm_result.output_text))
                         ELSE history
           /\ history_messages' = IF Truthy(llm_result.output_text)
                                  THEN to_messages(history')
                                  ELSE history_messages
           /\ IF llm_result.is_final
              THEN /\ pc' = "pdf"
                   /\ UNCHANGED <<tools_used, next_input, step_counter, agent_return>>
              ELSE IF HasToolCall(llm_result)
              THEN /\ tools_used' = Append(tools_used, llm_result.tool_call.name)
                   /\ pc' = "tool"
                   /\ UNCHANGED <<next_input, step_counter, agent_return>>
              ELSE /\ next_input' = <<AgentStepInput(task, history_messages')>>
                   /\ UNCHANGED tools_used
                   /\ AgentLoopTail

\* company_research_llm_step_activity returns
AgentLlmStep(resp) ==
    AgentStep(company_research_llm_step_activity(resp))

\* Variant of the tool branch that builds the next input from the rendering
\* made before the tool ran: history_messages is not refreshed
AgentToolResult_StaleMessages(tool_result) ==
    /\ wf = "agent"
    /\ pc = "tool"
    /\ UNCHANGED <<wf, chatVars, loopVars, paVars, auxVars, tools_used, last_output, logVars>>
    /\ LET tool_req == last_output[1].tool_call
           task == next_input[1].task
       IN  /\ history' = add(add(add(history, Prompt("tool", tool_result)),
                                 Prompt("user", facts_update_text(tool_req, tool_result))),
                             Prompt("user", plan_update_text(tools_used)))
           /\ history_messages' = history_messages
           /\ next_input' = <<AgentStepInput(task, history_messages')>>
           /\ AgentLoopTail

\* tool_activity returns tool_result
AgentToolResult(tool_result) ==
    /\ wf = "agent"
    /\ pc = "tool"
    /\ UNCHANGED <<wf, chatVars, loopVars, paVars, auxVars, tools_used, last_output, logVars>>
    /\ LET tool_req == last_output[1].tool_call
           task == next_input[1].task
       IN  /\ history' = add(add(add(history, Prompt("tool", tool_result)),
                                 Prompt("user", facts_update_text(tool_req, tool_result))),
                             Prompt("user", plan_update_text(tools_used)))
           /\ history_messages' = to_messages(history')
           /\ next_input' = <<AgentStepInput(task, history_messages')>>
           /\ AgentLoopTail

\* render_report_pdf returns; run returns the report
AgentPdfResult(pdf_b64) ==
    /\ wf = "agent"
    /\ pc = "pdf"
    /\ agent_return' = <<AgentResult(final_markdown(last_output[1].output_text), pdf_b64)>>
    /\ pc' = "done"
    /\ UNCHANGED <<wf, history, chatVars, loopVars, paVars, auxVars, tools_used, step_counter,
                   last_output, history_messages, next_input, logVars>>

AgentNext ==
    \/ \E task \in Tasks : AgentStart(task)
    \/ \E resp \in ResearchResponses : AgentLlmStep(resp)
    \/ \E r \in {TXT_TOOL_OK} : AgentToolResult(r)
    \/ \E pdf \in PdfResults : AgentPdfResult(pdf)

\* ------------------------------------------------------------------------
\* _run_company_research_subagent on its own: one call of the helper with a
\* company_research tool call, and the child workflow's result
\* ------------------------------------------------------------------------
\* Arguments objects a company_research tool call can carry
SubagentArguments ==
    { <<>>,
      << <<KEY_COMPANY, TXT_ACME>> >>,
      << <<KEY_COMPANY, <<>>>> >>,
      << <<KEY_COMPANY_NAME, TXT_ACME>> >>,
      << <<KEY_QUERY, TXT_ACME>> >>,
      << <<KEY_COMPANY, TXT_ACME>>, <<KEY_QUERY, TXT_OSLO>> >>,
      << <<KEY_QUERY, TXT_OSLO>>, <<KEY_COMPANY_NAME, TXT_ACME>> >>,
      << <<KEY_COMPANY, <<>>>>, <<KEY_COMPANY_NAME, TXT_ACME>>, <<KEY_QUERY, TXT_OSLO>> >>,
      << <<KEY_COMPANY, NONE>>, <<KEY_COMPANY_NAME, <<>>>>, <<KEY_QUERY, TXT_OSLO>> >>,
      << <<KEY_COMPANY, <<>>>>, <<KEY_COMPANY_NAME, <<>>>>, <<KEY_QUERY, <<>>>> >> }

\* A report of n characters with blanks at the given positions, preceded by
\* lead blanks and followed by trail line ends
ReportOf(lead, n, blanks, trail) ==
    [i \in 1..lead |-> " "]
        \o [i \in 1..n |-> IF i \in blanks THEN " " ELSE "r"]
        \o [i \in 1..trail |-> "\n"]

\* markdown_report values around the character budget of the excerpt
SubagentReports ==
    ChildReports \cup {<<>>}
        \cup { ReportOf(lead, n, blanks, trail) :
                 lead \in 0..1,
                 n \in (max_chars - 2)..(max_chars + 2),
                 blanks \in {{}, {max_chars - 3}, {max_chars - 4, max_chars - 3}},
                 trail \in 0..1 }

\* The helper is called: it returns at once without a company argument,
\* else it starts the child workflow and awaits it
SubagentStart(tool_call) ==
    /\ wf = "none"
    /\ wf' = "subagent"
    /\ result' = AgentStepOutput(FALSE, NONE, tool_call)
    /\ LET company == company_of(tool_call)
       IN  IF ~Truthy(company)
           THEN /\ subagent_return' = <<NO_COMPANY_TEXT>>
                /\ pc' = "done"
                /\ UNCHANGED child_input
           ELSE /\ child_input' = company
                /\ pc' = "child"
                /\ UNCHANGED subagent_return
    /\ UNCHANGED <<history, chatVars, paVars, agentVars, logVars, raised, queried, cliVars,
                   step, last_text, tool_calls_this_turn, last_weather_result, child_result>>

\* The child workflow returns its result dict and the helper returns
SubagentChildResult(markdown_report) ==
    /\ wf = "subagent"
    /\ pc = "child"
    /\ child_input' = NONE
    /\ child_result' = markdown_report
    /\ subagent_return' = <<subagent_summary(markdown_report)>>
    /\ pc' = "done"
    /\ UNCHANGED <<wf, history, chatVars, paVars, agentVars, logVars, raised, queried, cliVars,
                   step, last_text, tool_calls_this_turn, last_weather_result, result>>

SubagentNext ==
    \/ \E arguments \in SubagentArguments :
          SubagentStart(ToolCall(NAME_COMPANY_RESEARCH, arguments))
    \/ \E report \in SubagentReports : SubagentChildResult(report)

\* ------------------------------------------------------------------------
\* Awaited calls that do not return a result.  No await of the workflows is
\* inside a try block, so the error raised at the await leaves run and the
\* workflow execution fails.
\* ------------------------------------------------------------------------
\* The activity awaited at a position of a workflow
AwaitedActivity ==
    CASE pc = "llm" /\ wf \in {"chat", "pa"} -> "llm_step_activity"
      [] pc = "llm" /\ wf = "agent" -> "company_research_llm_step_activity"
      [] pc = "tool" -> "tool_activity"
      [] pc = "pdf" -> "render_report_pdf"
      [] OTHER -> "none"

\* execute_activity raises ActivityError: the activity failed ("failure": it
\* raised, as TOOL_DISPATCH[name] does for an unregistered name) or did not
\* complete within its schedule_to_close_timeout ("timeout")
ActivityFails(cause) ==
    /\ wf \in {"chat", "pa", "agent"}
    /\ pc \in {"llm", "tool", "pdf"}
    /\ raised' = <<[call |-> AwaitedActivity, cause |-> cause]>>
    /\ pc' = "failed"
    /\ UNCHANGED <<wf, history, chatVars, loopVars, paVars, agentVars, logVars,
                   subagent_return, queried, cliVars>>

\* execute_child_workflow raises ChildWorkflowError: the child failed.  The
\* call sets no timeout, so a child that never completes is awaited forever.
ChildFails ==
    /\ wf \in {"chat", "pa", "subagent"}
    /\ pc = "child"
    /\ raised' = <<[call |-> "AgentLoopWorkflow", cause |-> "failure"]>>
    /\ pc' = "failed"
    /\ UNCHANGED <<wf, history, chatVars, loopVars, paVars, agentVars, logVars,
                   subagent_return, queried, cliVars>>

\* The failures, and the decisions whose tool request cannot but fail
FailNext ==
    \/ \E cause \in {"failure", "timeout"} : ActivityFails(cause)
    \/ ChildFails
    \/ \E message \in UnparseableMessages : ChatLlmStep(message) \/ PALlmStep(message)

vars ==
    <<wf, pc, history, chatVars, loopVars, paVars, auxVars, agentVars, logVars>>

\* ------------------------------------------------------------------------
\* The workflows on any decision result of the AgentStepOutput type: run
\* takes whatever the activity registered under the name returns and
\* rebuilds an AgentStepOutput from a dict (`AgentStepOutput(**raw_result)`),
\* so every combination of the three fields can reach the loop body.
StepOutputTexts ==
    {NONE, <<>>, TXT_THINKING, TXT_FINAL_ANSWER_R}

AnyStepOutputs(requests) ==
    { AgentStepOutput(is_final, output_text, tool_call) :
        is_final \in BOOLEAN,
        output_text \in StepOutputTexts,
        tool_call \in {NoToolCall} \cup requests }

SupervisorRequests ==
    { ToolCall(NAME_GET_WEATHER, << <<KEY_LOCATION, TXT_OSLO>> >>),
      ToolCall(NAME_COMPANY_RESEARCH, << <<KEY_COMPANY, TXT_ACME>> >>) }

ResearchRequests ==
    { ToolCall(NAME_BROWSE_PAGE, << <<KEY_URL, TXT_URL>> >>) }

AnyOutputNext ==
    \/ \E query \in Queries : PAStart(query)
    \/ \E out \in AnyStepOutputs(SupervisorRequests) : PAStep(out)
    \/ \E r \in {TXT_WEATHER_OK, TXT_WEATHER_FAIL, TXT_TOOL_OK} : PAToolResult(r)
    \/ \E report \in ChildReports : PAChildResult(report)
    \/ \E task \in Tasks : AgentStart(task)
    \/ \E out \in AnyStepOutputs(ResearchRequests) : AgentStep(out)
    \/ \E r \in {TXT_TOOL_OK} : AgentToolResult(r)
    \/ \E pdf \in PdfResults : AgentPdfResult(pdf)

SpecAnyOutput ==
    Init /\ [][AnyOutputNext]_vars

\* ------------------------------------------------------------------------
\* The decision activities on their own: one call of llm_step_activity or of
\* company_research_llm_step_activity on a provider response
\* ------------------------------------------------------------------------
\* Assistant texts around the final markers: a core with or without leading
\* blanks and a tail
MarkerCores ==
    { <<"f","i","n","a","l"," ","a","n","s","w","e","r">>,
      <<"F","i","N","a","L"," ","A","n","S","w","E","r",":">>,
      <<"F","i","n","a","l"," ","S","u","m","m","a","r","y">>,
      <<"F","I","N","A","L"," ","S","U","M","M","A","R","Y",":">>,
      <<"f","i","n","a","l">>,
      <<"n","o"," ","f","i","n","a","l"," ","a","n","s","w","e","r">>,
      <<"f","i","n","a","l","a","n","s","w","e","r">>,
      <<"f","i","n","a","l"," "," ","a","n","s","w","e","r">>,
      <<"f","i","n","a","l","\t","s","u","m","m","a","r","y">>,
      <<"x">>,
      <<>> }

MarkerLeads ==
    { <<>>, <<" ">>, <<"\n","\t">> }

MarkerTails ==
    { <<>>, <<" ","o","k">> }

ActivityTexts ==
    { lead \o core \o tail : lead \in MarkerLeads, core \in MarkerCores, tail \in MarkerTails }

\* Chat-completions messages: text only, None, or tool calls with any content
ActivityMessages ==
    { Message(<<>>, content) : content \in ActivityTexts \cup {NONE} }
      \cup { Message(<<FunctionCall(name, arguments, valid_json)>>, content) :
               name \in {NAME_GET_WEATHER, NAME_SCHEDULE_EVENT},
               arguments \in {<<>>, << <<KEY_LOCATION, TXT_OSLO>> >>},
               valid_json \in BOOLEAN,
               content \in {NONE, <<>>, TXT_FINAL_SUMMARY_OK} }

\* generate_content responses: text parts, parts without text, function-call
\* parts with any text, and responses without candidates, content or parts
ActivityResponses ==
    { TextResponse(text) : text \in ActivityTexts \cup {NONE} }
      \cup { <<Candidate(<<Content(<<Part(<<ToolCall(NAME_BROWSE_PAGE, << <<KEY_URL, TXT_URL>> >>)>>,
                                         text)>>)>>)>> :
               text \in {NONE, <<>>, TXT_FINAL_ANSWER_R} }
      \cup { <<>>, <<Candidate(<<>>)>>, <<Candidate(<<Content(<<>>)>>)>> }

\* llm_step_activity is called with a step input and returns
LlmStepActivityReturns(message) ==
    /\ wf = "none"
    /\ wf' = "llm_step_activity"
    /\ pc' = "done"
    /\ result' = llm_step_activity(message)
    /\ UNCHANGED <<history, chatVars, step, last_text, tool_calls_this_turn,
                   last_weather_result, child_input, child_result, paVars, auxVars,
                   agentVars, logVars>>

\* company_research_llm_step_activity is called and returns
ResearchLlmStepActivityReturns(resp) ==
    /\ wf = "none"
    /\ wf' = "company_research_llm_step_activity"
    /\ pc' = "done"
    /\ last_output' = <<company_research_llm_step_activity(resp)>>
    /\ UNCHANGED <<history, chatVars, loopVars, paVars, auxVars, tools_used, step_counter,
                   history_messages, next_input, agent_return, logVars>>

ActivityNext ==
    \/ \E message \in ActivityMessages : LlmStepActivityReturns(message)
    \/ \E resp \in ActivityResponses : ResearchLlmStepActivityReturns(resp)

SpecActivity ==
    Init /\ [][ActivityNext]_vars

\* ------------------------------------------------------------------------
\* The supervisors on get_weather requests for several locations
\* ------------------------------------------------------------------------
Locations ==
    {TXT_OSLO, TXT_PARIS, TXT_ECHO_LOCATION}

WeatherMessages ==
    { Message(<<FunctionCall(NAME_GET_WEATHER, << <<KEY_LOCATION, location>> >>, TRUE)>>, NONE) :
        location \in Locations }
      \cup { Message(<<>>, TXT_FINAL_SUMMARY_OK), Message(<<>>, NONE) }

WeatherResults ==
    {get_weather(location, found) : location \in Locations, found \in BOOLEAN}

WeatherNext ==
    \/ \E note \in SystemNotes : ChatStart(note)
    \/ \E text \in {UserText(k) : k \in 1..MaxMessages} : submit_user_message(text)
    \/ close
    \/ ChatWake
    \/ ChatReturn
    \/ ChatDequeue
    \/ \E message \in WeatherMessages : ChatLlmStep(message)
    \/ \E r \in WeatherResults : ChatToolResult(r)
    \/ \E query \in Queries : PAStart(query)
    \/ \E message \in WeatherMessages : PALlmStep(message)
    \/ \E r \in WeatherResults : PAToolResult(r)

SpecWeather ==
    Init /\ [][WeatherNext]_vars

Next ==
    ChatNext \/ PANext \/ AgentNext \/ SubagentNext

Spec ==
    Init /\ [][Next]_vars

\* One chat session, one single-shot request, one research run
SpecChat ==
    Init /\ [][ChatNext]_vars

\* One chat session and a client that queries it
SpecChatQuery ==
    Init /\ [][ChatNext \/ get_latest_response]_vars

SpecPA ==
    Init /\ [][PANext]_vars

SpecAgent ==
    Init /\ [][AgentNext]_vars

SpecSubagent ==
    Init /\ [][SubagentNext]_vars

\* The workflows with awaited calls that may fail or expire
SpecFail ==
    Init /\ [][Next \/ FailNext]_vars

\* The steps of the chat coroutine.  The substrate resumes a workflow whose
\* wait condition holds or whose awaited activity or child has completed,
\* and every activity call and child workflow is assumed to return.
ChatRun ==
    \/ ChatWake
    \/ ChatReturn
    \/ ChatDequeue
    \/ \E message \in SupervisorMessages : ChatLlmStep(message)
    \/ \E r \in {TXT_WEATHER_OK, TXT_WEATHER_FAIL, TXT_TOOL_OK} : ChatToolResult(r)
    \/ \E report \in ChildReports : ChatChildResult(report)

FairSpecChat ==
    Init /\ [][ChatNext]_vars /\ WF_vars(ChatRun)

\* One chat session and the command-line client that started it
SpecCli ==
    Init /\ [][CliNext]_vars

\* The session was started by client.start_workflow before the first
\* prompt, so it runs; the client's polling loop runs again after every
\* sleep, the service delivers every signal it accepted, and the coroutine
\* is resumed
FairSpecCli ==
    /\ SpecCli
    /\ WF_vars(\E note \in SystemNotes : ChatStart(note))
    /\ WF_vars(ChatRun)
    /\ WF_vars(cli_poll)
    /\ WF_vars(CliSignalDelivered)

\* ------------------------------------------------------------------------
\* Properties
\* ------------------------------------------------------------------------
\* Positions of the chat coroutine inside a turn: a message was dequeued and
\* its response is not yet published
InTurn ==
    {"llm", "tool", "child"}

\* The texts of the user messages in a history: the user-role entries that
\* are not tool outputs
RECURSIVE UserMessageTexts(_)
UserMessageTexts(h) ==
    IF h = <<>> THEN <<>>
    ELSE IF Head(h).role = "user" /\ ~startswith(Head(h).text, TOOL_OUT_PRE)
         THEN <<Head(h).text>> \o UserMessageTexts(Tail(h))
         ELSE UserMessageTexts(Tail(h))

\* C1: messages are processed in submission order, one full turn at a time:
\* the k-th submitted message is the k-th dequeued and gets turn_index k,
\* the queue holds exactly the submitted messages not yet dequeued, the user
\* entries of the history are the dequeued messages in order, and the user
\* entry of message k+1 is in the history only when the responses of turns
\* 1..k have been published, in that order.
C1_FifoOneTurnAtATime ==
    wf = "chat" =>
        /\ submitted = dequeued \o pending_messages
        /\ turn_index = Len(dequeued)
        /\ UserMessageTexts(history) = dequeued
        /\ published = [i \in 1..Len(published) |-> i]
        /\ Len(dequeued) <= Len(published) + 1
        /\ Len(published) <= Len(dequeued)

\* C1 witness: two messages were submitted (the second while the first turn
\* was still in flight is among the interleavings), both were dequeued in
\* order and both responses are published.
C1_Witness ==
    /\ wf = "chat"
    /\ dequeued = <<UserText(1), UserText(2)>>
    /\ published = <<1, 2>>
    /\ pc = "wait"

\* C2: latest_response changes only in the step that ends a turn, every step
\* that ends a turn changes it, and the value assigned carries the current
\* turn_index, which is 1 for the first assignment and the previous
\* published turn_index plus one afterwards.
C2_PublishedOncePerTurn ==
    [][ /\ (latest_response' # latest_response =>
              /\ pc \in InTurn
              /\ pc' = "wait"
              /\ Len(latest_response') = 1
              /\ latest_response'[1].turn_index = turn_index
              /\ turn_index' = turn_index
              /\ IF latest_response = <<>>
                 THEN latest_response'[1].turn_index = 1
                 ELSE latest_response'[1].turn_index = latest_response[1].turn_index + 1)
        /\ (wf = "chat" /\ pc \in InTurn /\ pc' \notin InTurn =>
              latest_response' # latest_response)
        /\ (wf = "chat" /\ pc \notin InTurn /\ pc' \in InTurn =>
              /\ turn_index' = turn_index + 1
              /\ (latest_response = <<>> => turn_index = 0)
              /\ (latest_response # <<>> => latest_response[1].turn_index = turn_index))
      ]_vars

\* C2 witness: the second turn ran out of steps and published the fallback
\* response with turn_index 2.
C2_Witness ==
    /\ wf = "chat"
    /\ pc = "wait"
    /\ latest_response = <<ChatResponse(NO_RESPONSE_TEXT, 2)>>

\* C3 as stated: once close was signalled while the session was waiting with
\* an empty queue, no turn is ever started again.
C3_CloseIdleNoMoreTurns ==
    (wf = "chat" /\ close_seen = "idle") => pc \notin InTurn

\* C3 amended: when the close check runs with closed set and the queue empty
\* run returns at once, otherwise it starts the next turn; a returned session
\* stays returned; a session returns only with every submitted message
\* answered; and once close is signalled every submitted message gets its
\* published response and the session terminates.
C3_CloseTerminatesAfterQueuedTurns ==
    /\ [][ /\ (wf = "chat" /\ pc = "check" /\ pc' # "check" =>
                 IF closed /\ pending_messages = <<>>
                 THEN pc' = "done" /\ history' = history /\ llm_calls' = llm_calls
                 ELSE pc' = "llm")
           /\ (pc = "done" => pc' = "done") ]_vars
    /\ [](wf = "chat" /\ pc = "done" => closed /\ Len(published) = Len(submitted))
    /\ ((wf = "chat" /\ closed) ~> (pc = "done" /\ Len(published) = Len(submitted)))

\* C3 witness: close found a turn in flight and a second message was queued;
\* both turns were completed and then the session returned.
C3_Witness ==
    /\ wf = "chat"
    /\ close_seen = "busy"
    /\ pc = "done"
    /\ published = <<1, 2>>

\* C4: the session returns only from its close check, with closed set, the
\* queue empty and every dequeued message answered; it is never returned
\* while messages are pending; and a turn in flight goes on until the step
\* that publishes the response carrying its turn_index.
C4_CloseOnlyBetweenTurns ==
    /\ [][ /\ (pc' = "done" /\ pc # "done" =>
                 /\ pc = "check"
                 /\ closed
                 /\ pending_messages = <<>>
                 /\ Len(latest_response) = IF turn_index = 0 THEN 0 ELSE 1
                 /\ (turn_index > 0 => latest_response[1].turn_index = turn_index))
           /\ (wf = "chat" /\ pc \in InTurn =>
                 \/ pc' \in InTurn /\ turn_index' = turn_index
                 \/ /\ pc' = "wait"
                    /\ Len(latest_response') = 1
                    /\ latest_response'[1].turn_index = turn_index) ]_vars
    /\ [](wf = "chat" /\ pc = "done" => pending_messages = <<>>)

\* C4 witness: close arrived while a turn was in flight with another message
\* queued, and the turn in flight is still running.
C4_Witness ==
    /\ wf = "chat"
    /\ closed
    /\ pc \in InTurn
    /\ pending_messages # <<>>
    /\ llm_calls > 0

\* C5: the step loops never exceed their budget: an AgentLoopWorkflow run
\* makes at most 30 decision calls and step_counter never exceeds max_steps,
\* a chat turn makes at most 8 decision calls, and the count of a chat turn
\* starts again from zero when the next turn starts.
C5_StepBudget ==
    /\ wf = "agent" => llm_calls <= 30 /\ step_counter <= 30 /\ step_counter <= max_steps
    /\ wf = "agent" /\ pc = "llm" => llm_calls = step_counter - 1
    /\ wf = "agent" /\ pc \in {"tool", "pdf", "done"} => llm_calls = step_counter
    /\ wf = "chat" => llm_calls <= 8 /\ step = llm_calls
    /\ wf = "chat" /\ pc = "llm" => llm_calls < 8

\* C5 witness: the second turn of a chat session used all 8 decision calls of
\* its own budget after the first turn had used its calls.
C5_Witness ==
    /\ wf = "chat"
    /\ turn_index = 2
    /\ published = <<1, 2>>
    /\ llm_calls = 8

\* C6 as stated: PersonalAssistantWorkflow makes at most 30 decision calls
\* and reports at most 30 steps.
C6_PAStepBudget30 ==
    wf = "pa" =>
        /\ llm_calls <= 30
        /\ steps <= 30
        /\ (pa_return # <<>> => pa_return[1].steps <= 30)

\* C6 amended: PersonalAssistantWorkflow makes at most 100 decision calls
\* for one request and the steps field of its result never exceeds 100.
C6_PAStepBudget100 ==
    wf = "pa" =>
        /\ llm_calls <= 100
        /\ steps <= 100
        /\ llm_calls = IF pc = "llm" THEN steps - 1 ELSE steps
        /\ (pa_return # <<>> => pa_return[1].steps <= 100 /\ pa_return[1].steps = llm_calls)

\* C6 witness: a request that used the whole budget and returned steps = 100.
C6_Witness ==
    /\ wf = "pa"
    /\ pc = "done"
    /\ pa_return # <<>>
    /\ pa_return[1].steps = 100
    /\ llm_calls = 100

\* The text with the final-answer marker stripped: the marker is matched
\* case-insensitively at the start of the trimmed text, with or without its
\* colon, and the text after it is trimmed at its start
StripMarker(text, markers) ==
    LET stripped == lstrip(text)
        matching == {m \in markers : startswith(lower(stripped), m)}
        longest  == CHOOSE m \in matching : \A n \in matching : Len(n) <= Len(m)
    IN  IF matching = {} THEN text ELSE lstrip(SliceFrom(stripped, Len(longest)))

\* C7: when AgentLoopWorkflow.run returns after a step that was final with a
\* non-empty output_text, markdown_report is that text with the final-answer
\* marker the activity matched stripped.
C7_FinalReportStripped ==
    (/\ wf = "agent"
     /\ pc = "done"
     /\ last_output[1].is_final
     /\ Truthy(last_output[1].output_text)) =>
        agent_return[1].markdown_report =
            StripMarker(last_output[1].output_text,
                        {MARK_FINAL_ANSWER, MARK_FINAL_ANSWER_COLON})

\* C8: after a chat turn that ended on a final step, the text of
\* latest_response is the output_text of that step with the final-answer
\* marker stripped; likewise final_response of PersonalAssistantWorkflow.
C8_PublishedTextStripped ==
    /\ (/\ wf = "chat"
        /\ pc = "wait"
        /\ latest_response # <<>>
        /\ latest_response[1].turn_index = turn_index
        /\ ~HasToolCall(result)
        /\ result.is_final
        /\ Truthy(result.output_text)) =>
           latest_response[1].text =
               StripMarker(result.output_text,
                           {MARK_FINAL_SUMMARY, MARK_FINAL_ANSWER,
                            MARK_FINAL_SUMMARY \o <<":">>, MARK_FINAL_ANSWER_COLON})
    /\ (/\ wf = "pa"
        /\ pc = "done"
        /\ ~HasToolCall(result)
        /\ result.is_final
        /\ Truthy(result.output_text)) =>
           pa_return[1].final_response =
               StripMarker(result.output_text,
                           {MARK_FINAL_SUMMARY, MARK_FINAL_ANSWER,
                            MARK_FINAL_SUMMARY \o <<":">>, MARK_FINAL_ANSWER_COLON})

\* The text of the last entry of h with the given role at an index above
\* from, or the empty text when there is none
LastTextOfRole(h, role, from) ==
    LET idx == {i \in (from + 1)..Len(h) : h[i].role = role}
    IN  IF idx = {} THEN <<>> ELSE h[CHOOSE i \in idx : \A j \in idx : j <= i].text

\* C9: when AgentLoopWorkflow.run returns because its 30 steps are used up,
\* markdown_report is the last assistant text captured at any step of the
\* run, and empty only if no step produced assistant text.
C9_AgentFallbackLastText ==
    (/\ wf = "agent"
     /\ pc = "done"
     /\ ~last_output[1].is_final) =>
        agent_return[1].markdown_report = LastTextOfRole(history, "assistant", 0)

\* The index of the user entry that opened the current turn
TurnStart(h) ==
    LET idx == {i \in 1..Len(h) :
                  h[i].role = "user" /\ ~startswith(h[i].text, TOOL_OUT_PRE)}
    IN  IF idx = {} THEN 0 ELSE CHOOSE i \in idx : \A j \in idx : j <= i

\* The turn that just ended had no final step
TurnEndedWithoutFinal ==
    /\ wf = "chat"
    /\ pc = "wait"
    /\ latest_response # <<>>
    /\ latest_response[1].turn_index = turn_index
    /\ ~(~HasToolCall(result) /\ Truthy(result.output_text) /\ result.is_final)

\* C10 as stated: a turn whose 8 steps brought no final step publishes the
\* last assistant text captured in that turn, or the failure text.
C10_FallbackLastTextOfTurn ==
    (TurnEndedWithoutFinal /\ llm_calls = 8) =>
        latest_response[1].text =
            OrElse(LastTextOfRole(history, "model", TurnStart(history)), NO_RESPONSE_TEXT)

\* C10 amended: a turn that ends without a final step publishes the
\* synthesized circuit-breaker message when the tool budget ended it (which
\* can happen at the 8th step), and otherwise, after exactly 8 steps, the
\* last assistant text captured in that same turn, or the failure text when
\* the turn captured none; a text of an earlier turn is never used.
C10_FallbackLastTextOrBreaker ==
    TurnEndedWithoutFinal =>
        IF HasToolCall(result) /\ tool_calls_this_turn >= 3 /\ last_weather_result # NONE
        THEN latest_response[1].text = breaker_message(last_weather_result)
        ELSE /\ llm_calls = 8
             /\ latest_response[1].text =
                  OrElse(LastTextOfRole(history, "model", TurnStart(history)),
                         NO_RESPONSE_TEXT)

\* C10 witness: the first turn captured an assistant text, the second turn
\* used its 8 steps without capturing any and published the failure text.
C10_Witness ==
    /\ TurnEndedWithoutFinal
    /\ turn_index = 2
    /\ llm_calls = 8
    /\ LastTextOfRole(history, "model", 0) # <<>>
    /\ LastTextOfRole(history, "model", TurnStart(history)) = <<>>
    /\ latest_response[1].text = NO_RESPONSE_TEXT

\* The supervisor workflows, which share the tool branch of the step loop
Supervisor ==
    {"chat", "pa"}

\* A step in which the decision activity returned a request for the tool
DecisionRequests(tool_name) ==
    /\ wf \in Supervisor
    /\ pc = "llm"
    /\ llm_calls' = llm_calls + 1
    /\ result'.tool_call.name = tool_name

\* The step appends exactly one entry, a tool output with the given name
AppendsToolOutput(tool_name, tool_response) ==
    /\ Len(history') = Len(history) + 1
    /\ SubSeq(history', 1, Len(history)) = history
    /\ history'[Len(history')] = Prompt("user", tool_output_text(tool_name, tool_response))

\* The successful get_weather outputs recorded in h above index from
WeatherSuccesses(h, from) ==
    {i \in (from + 1)..Len(h) :
        /\ h[i].role = "user"
        /\ startswith(h[i].text, TOOL_OUT_PRE \o NAME_GET_WEATHER \o TOOL_OUT_POST)
        /\ Contains(h[i].text, WEATHER_SUCCESS_MARK)}

\* C11: within one turn or request a get_weather result is cached exactly
\* when a get_weather call of that turn succeeded; tool_activity is never
\* awaited for get_weather while a result is cached; and a get_weather
\* request that finds a cached result schedules no tool_activity and appends
\* one tool-result entry carrying the cached result verbatim.
C11_RepeatedWeatherUsesCache ==
    /\ [](wf \in Supervisor =>
            LET ok == WeatherSuccesses(history, TurnStart(history))
            IN  /\ (last_weather_result = NONE) = (ok = {})
                /\ \A i \in ok :
                     history[i].text = tool_output_text(NAME_GET_WEATHER, last_weather_result)
                /\ (pc = "tool" /\ result.tool_call.name = NAME_GET_WEATHER =>
                      last_weather_result = NONE))
    /\ [][ (DecisionRequests(NAME_GET_WEATHER) /\ last_weather_result # NONE) =>
              /\ pc' # "tool"
              /\ last_weather_result' = last_weather_result
              /\ AppendsToolOutput(NAME_GET_WEATHER, last_weather_result) ]_vars

\* C11 witness: in one chat turn two consecutive get_weather requests were
\* answered with the same successful result and the turn goes on.
C11_Witness ==
    /\ wf = "chat"
    /\ pc = "llm"
    /\ tool_calls_this_turn = 2
    /\ Len(history) >= 2
    /\ history[Len(history)].text = tool_output_text(NAME_GET_WEATHER, TXT_WEATHER_OK)
    /\ history[Len(history) - 1].text = tool_output_text(NAME_GET_WEATHER, TXT_WEATHER_OK)

\* C12: the tool-budget circuit breaker.  tool_calls_this_turn counts the
\* requests of the turn, the one being executed included, so the tool calls
\* made are one fewer while a tool or child is awaited.  A new step is never
\* started, and no tool or child is awaited, with 3 tool calls made and a
\* cached weather result; and the step that completes a tool call with both
\* conditions true ends the turn (chat) or the run (single-shot) with the
\* synthesized message: the final-answer marker, then the cached result.
C12_ToolBudgetBreaker ==
    /\ [](wf \in Supervisor /\ last_weather_result # NONE =>
            /\ (pc = "llm" => tool_calls_this_turn < tool_budget)
            /\ (pc \in {"tool", "child"} => tool_calls_this_turn - 1 < tool_budget))
    /\ [][ (/\ wf \in Supervisor
            /\ pc \in InTurn
            /\ pc' \notin {"tool", "child"}
            /\ Len(history') = Len(history) + 1
            /\ history'[Len(history')].role = "user"
            /\ tool_calls_this_turn' >= 3
            /\ last_weather_result' # NONE) =>
              LET text == IF wf = "chat" THEN latest_response'[1].text
                          ELSE pa_return'[1].final_response
              IN  /\ pc' = IF wf = "chat" THEN "wait" ELSE "done"
                  /\ text = FINAL_SUMMARY_PREFIX \o last_weather_result' \o BREAKER_SUFFIX
                  /\ is_final_text(text)
                  /\ Contains(text, last_weather_result') ]_vars

\* C12 witness: a chat turn was ended by the circuit breaker at its third
\* tool call and published the synthesized message.
C12_Witness ==
    /\ wf = "chat"
    /\ pc = "wait"
    /\ tool_calls_this_turn = 3
    /\ llm_calls = 3
    /\ latest_response # <<>>
    /\ latest_response[1].text = breaker_message(TXT_WEATHER_OK)

\* The text a child's report may be folded into: the fixed fallback for a
\* blank report, else the fixed prefix followed by the trimmed report or by
\* a prefix of the trimmed report and the ellipsis
IsSummaryOf(text, markdown_report) ==
    LET markdown == strip(markdown_report)
        snippet  == SliceFrom(text, Len(REPORT_PREFIX))
        cut      == SliceTo(snippet, Len(snippet) - Len(ELLIPSIS))
    IN  IF markdown = <<>>
        THEN text = NO_REPORT_TEXT
        ELSE /\ startswith(text, REPORT_PREFIX)
             /\ \/ snippet = markdown
                \/ /\ snippet = cut \o ELLIPSIS
                   /\ startswith(markdown, cut)

\* C13: a company_research request with a non-empty company argument starts
\* one child workflow with that argument as its task and adds nothing to
\* the history while the child runs; a child is awaited only for such a
\* request; and the step in which the child returns appends exactly one
\* entry, the tool output whose text is the fallback or the excerpt of the
\* report, and nothing else of the child (no tool call is recorded).
C13_OneChildOneEntry ==
    /\ [](wf \in Supervisor =>
            /\ (pc = "child") = (child_input # NONE)
            /\ (pc = "child" =>
                  /\ result.tool_call.name = NAME_COMPANY_RESEARCH
                  /\ Truthy(child_input)
                  /\ child_input = company_of(result.tool_call)))
    /\ [][ /\ (DecisionRequests(NAME_COMPANY_RESEARCH)
                 /\ Truthy(company_of(result'.tool_call)) =>
                   /\ pc' = "child"
                   /\ child_input' = company_of(result'.tool_call)
                   /\ history' = history)
           /\ (wf \in Supervisor /\ child_input' # child_input /\ child_input' # NONE =>
                   DecisionRequests(NAME_COMPANY_RESEARCH))
           /\ (wf \in Supervisor /\ pc = "child" /\ pc' # "child" =>
                   /\ Len(history') = Len(history) + 1
                   /\ SubSeq(history', 1, Len(history)) = history
                   /\ history'[Len(history')].role = "user"
                   /\ \E text \in {SliceFrom(history'[Len(history')].text,
                                             Len(tool_output_text(NAME_COMPANY_RESEARCH, <<>>)))} :
                        /\ history'[Len(history')].text =
                              tool_output_text(NAME_COMPANY_RESEARCH, text)
                        /\ IsSummaryOf(text, child_result')
                   /\ tool_calls' = tool_calls
                   /\ tools_used' = tools_used) ]_vars

\* C13 witness: a child returned a blank report to the single-shot workflow,
\* whose history ends with the one tool output carrying the fallback text.
C13_Witness ==
    /\ wf = "pa"
    /\ pc = "llm"
    /\ child_result = TXT_BLANK_REPORT
    /\ history[Len(history)] =
         Prompt("user", tool_output_text(NAME_COMPANY_RESEARCH, NO_REPORT_TEXT))

\* The report last returned by a child, the text the helper made of it and
\* the excerpt part of that text
HelperReturned ==
    wf = "subagent" /\ pc = "done" /\ child_result # NONE

Excerpt ==
    SliceFrom(subagent_return[1], Len(REPORT_PREFIX))

\* C14 as stated: the excerpt of a report longer than 2000 characters has at
\* most 2000 characters, ends in the ellipsis and is, without it, a prefix
\* of the report; a shorter report is passed unchanged; and the whole text
\* returned has at most 2000 characters.
C14_ExcerptWithinBudget ==
    HelperReturned =>
        /\ (Len(child_result) > 2000 =>
              /\ Len(Excerpt) <= 2000
              /\ SliceFrom(Excerpt, Len(Excerpt) - 3) = ELLIPSIS
              /\ startswith(child_result, SliceTo(Excerpt, Len(Excerpt) - 3)))
        /\ (Len(child_result) <= 2000 /\ strip(child_result) # <<>> =>
              Excerpt = child_result)
        /\ Len(subagent_return[1]) <= 2000

\* C14 amended: the budget applies to the report trimmed of surrounding
\* blanks.  A trimmed report longer than 2000 characters gives an excerpt of
\* at most 2000 characters that ends in the ellipsis and is, without it, a
\* prefix of the trimmed report; a trimmed report of at most 2000 characters
\* is the excerpt, with no ellipsis added; the text returned is the fixed
\* prefix followed by the excerpt, so at most 2000 characters plus the
\* length of the prefix; a blank report gives the fixed fallback text.
C14_ExcerptOfTrimmedReport ==
    HelperReturned =>
        LET markdown == strip(child_result)
        IN  IF markdown = <<>>
            THEN subagent_return[1] = NO_REPORT_TEXT
            ELSE /\ subagent_return[1] = REPORT_PREFIX \o Excerpt
                 /\ Len(Excerpt) <= 2000
                 /\ Len(subagent_return[1]) <= 2000 + Len(REPORT_PREFIX)
                 /\ (Len(markdown) > 2000 =>
                       /\ SliceFrom(Excerpt, Len(Excerpt) - 3) = ELLIPSIS
                       /\ startswith(markdown, SliceTo(Excerpt, Len(Excerpt) - 3))
                       /\ SliceTo(Excerpt, Len(Excerpt) - 3) =
                             rstrip(SliceTo(markdown, 2000 - 3)))
                 /\ (Len(markdown) <= 2000 => Excerpt = markdown)

\* C14 witness: a report whose trimmed form exceeds the budget was cut, the
\* cut fell after blanks, and the excerpt is shorter than the budget.
C14_Witness ==
    /\ HelperReturned
    /\ Len(strip(child_result)) > max_chars
    /\ Len(Excerpt) < max_chars
    /\ SliceFrom(Excerpt, Len(Excerpt) - 3) = ELLIPSIS

\* The first non-empty value among the aliases company, company_name, query
\* of an arguments object, or the empty text when there is none
FirstAlias(arguments) ==
    LET vals == <<Get(arguments, KEY_COMPANY), Get(arguments, KEY_COMPANY_NAME),
                  Get(arguments, KEY_QUERY)>>
        idx  == {i \in 1..3 : Truthy(vals[i])}
    IN  IF idx = {} THEN <<>> ELSE vals[CHOOSE i \in idx : \A j \in idx : i <= j]

\* The step loop goes on after a tool output was appended: the next decision
\* call is awaited, unless that step was the last of the budget or tripped
\* the tool-budget circuit breaker, which end the turn or run as usual
TurnGoesOn ==
    \/ pc' = "llm"
    \/ wf = "chat" /\ pc' = "wait" /\ step' = max_steps_per_turn
    \/ wf = "pa" /\ pc' = "done" /\ steps = pa_max_steps
    \/ /\ pc' = IF wf = "chat" THEN "wait" ELSE "done"
       /\ tool_calls_this_turn' >= tool_budget
       /\ last_weather_result # NONE

\* C15: a child workflow is awaited only with the first non-empty alias
\* value as its task; the helper called without any non-empty alias returns
\* the descriptive text and starts no child; and in the step loops such a
\* request awaits nothing, appends that text as its one tool output and the
\* loop goes on.
C15_MissingCompanyIsText ==
    /\ [](wf \in Supervisor \cup {"subagent"} /\ pc = "child" =>
            /\ Truthy(child_input)
            /\ child_input = FirstAlias(result.tool_call.arguments))
    /\ [](wf = "subagent" /\ FirstAlias(result.tool_call.arguments) = <<>> =>
            /\ pc = "done"
            /\ subagent_return = <<NO_COMPANY_TEXT>>
            /\ child_input = NONE
            /\ child_result = NONE)
    /\ [][ (DecisionRequests(NAME_COMPANY_RESEARCH)
              /\ FirstAlias(result'.tool_call.arguments) = <<>>) =>
              /\ pc' \notin {"child", "tool"}
              /\ child_input' = NONE
              /\ child_result' = child_result
              /\ AppendsToolOutput(NAME_COMPANY_RESEARCH, NO_COMPANY_TEXT)
              /\ TurnGoesOn ]_vars

\* C15 witness: a chat turn got a company_research request without
\* arguments, recorded the descriptive text and awaits its next decision.
C15_Witness ==
    /\ wf = "chat"
    /\ pc = "llm"
    /\ llm_calls >= 1
    /\ result.tool_call = ToolCall(NAME_COMPANY_RESEARCH, <<>>)
    /\ history[Len(history)] =
         Prompt("user", tool_output_text(NAME_COMPANY_RESEARCH, NO_COMPANY_TEXT))

\* C16: tool_activity is never awaited for a request naming company_research,
\* and a step that receives such a request never schedules tool_activity.
C16_DelegationBypassesExecutor ==
    /\ [](wf \in Supervisor /\ pc = "tool" =>
            result.tool_call.name # NAME_COMPANY_RESEARCH)
    /\ [][ DecisionRequests(NAME_COMPANY_RESEARCH) => pc' # "tool" ]_vars

\* C16 witness: the single-shot workflow received a company_research request
\* without arguments and is past it, and no tool_activity was awaited.
C16_Witness ==
    /\ wf = "pa"
    /\ pc = "llm"
    /\ llm_calls = 1
    /\ tool_calls = <<ToolCall(NAME_COMPANY_RESEARCH, <<>>)>>

\* An awaited call expired
TimedOut ==
    raised # <<>> /\ raised[1].cause = "timeout"

\* C17: a tool execution that fails does not end the workflow: the step that
\* ends the wait for tool_activity (other than by expiry of the wait)
\* appends a tool output to the history, raises nothing, and the loop goes
\* on.
C17_ToolFailureIsSurfaced ==
    [][ (wf \in Supervisor /\ pc = "tool" /\ pc' # "tool" /\ ~TimedOut') =>
           /\ raised' = <<>>
           /\ pc' # "failed"
           /\ Len(history') = Len(history) + 1
           /\ startswith(history'[Len(history')].text,
                         TOOL_OUT_PRE \o result.tool_call.name \o TOOL_OUT_POST)
           /\ TurnGoesOn ]_vars

\* C18: a decision call that fails or expires does not end the workflow:
\* the step that ends the wait for the decision activity raises nothing.
C18_DecisionFailureIsKept ==
    [][ (wf \in {"chat", "pa", "agent"} /\ pc = "llm" /\ pc' # "llm") =>
           raised' = <<>> /\ pc' # "failed" ]_vars

\* C19: the expiry of the wait for a tool execution or a child workflow
\* does not end the workflow: no workflow has failed with a timeout of
\* tool_activity or of the child.
C19_ExpiryIsRecoverable ==
    TimedOut => raised[1].call \notin {"tool_activity", "AgentLoopWorkflow"}

\* C20: a step in which the client receives a new query result changes
\* nothing but that result, which is the current latest_response;
\* latest_response is absent exactly until the first turn has completed and
\* is then the response of the most recently completed turn; so a query
\* returns None before the first completed turn and otherwise the response
\* of a completed turn.
C20_QueryHasNoSideEffects ==
    /\ [][ queried' # queried =>
              /\ queried' = latest_response
              /\ UNCHANGED <<wf, pc, history, pending_messages, turn_index,
                             latest_response, closed, loopVars, logVars>> ]_vars
    /\ [](wf = "chat" =>
            /\ (latest_response = <<>>) = (published = <<>>)
            /\ (latest_response # <<>> =>
                  /\ latest_response[1].turn_index = Len(published)
                  /\ latest_response[1].turn_index =
                        IF pc \in InTurn THEN turn_index - 1 ELSE turn_index)
            /\ (queried # <<>> =>
                  /\ published # <<>>
                  /\ queried[1].turn_index \in 1..Len(published)))

\* C20 witness: the client queried after the first turn, the second turn has
\* completed since, and the client still holds the first response.
C20_Witness ==
    /\ wf = "chat"
    /\ queried # <<>>
    /\ queried[1].turn_index = 1
    /\ latest_response # <<>>
    /\ latest_response[1].turn_index = 2

\* ------------------------------------------------------------------------
\* C21 (as stated): while a chat turn is in flight the message being
\* processed is still the head of pending_messages; it is removed only when
\* its turn has completed.
C21_MessageStaysQueuedDuringTurn ==
    (wf = "chat" /\ pc \in InTurn) =>
        /\ pending_messages # <<>>
        /\ Head(pending_messages) = dequeued[Len(dequeued)]

\* C21 (amended): a message is removed from pending_messages when its turn
\* starts, before the first decision call of the turn, and only when every
\* earlier turn has published its response; while a turn is in flight the
\* message being processed is the last user message of the history and is no
\* longer in the queue, which holds exactly the messages submitted after it.
C21_DequeuedAtTurnStart ==
    /\ [](wf = "chat" /\ pc \in InTurn =>
            /\ Len(dequeued) = turn_index
            /\ Len(published) = turn_index - 1
            /\ submitted = dequeued \o pending_messages
            /\ UserMessageTexts(history)[turn_index] = dequeued[turn_index])
    /\ [][ wf = "chat" /\ pending_messages' # pending_messages
                       /\ Len(pending_messages') <= Len(pending_messages) =>
              /\ pc = "check" /\ pc' = "llm"
              /\ llm_calls' = 0
              /\ Len(published) = Len(dequeued)
              /\ pending_messages = <<dequeued'[Len(dequeued')]>> \o pending_messages' ]_vars

\* C21 witness: the first message is being processed while the second one,
\* not the first, is the head of the queue.
C21_Witness ==
    /\ wf = "chat"
    /\ pc \in InTurn
    /\ llm_calls > 0
    /\ pending_messages # <<>>
    /\ Head(pending_messages) # dequeued[Len(dequeued)]

\* ------------------------------------------------------------------------
\* The entries a step added at the end of the history
Appended ==
    SubSeq(history', Len(history) + 1, Len(history'))

\* C22: the history of every orchestrator is append-only: a step leaves the
\* entries already recorded in place, unchanged and in order, and adds its
\* own at the end, equal entries included; the entries a step adds are those
\* of the operation that completed in it: the message dequeued, the text of
\* the decision, the output of the tool or child awaited, and in the
\* research agent the tool result followed by the facts and plan updates.
C22_HistoryAppendOnly ==
    [][ /\ Len(history') >= Len(history)
        /\ SubSeq(history', 1, Len(history)) = history
        /\ (wf = "chat" /\ pc = "check" /\ pc' = "llm" =>
              Appended = <<Prompt("user", dequeued'[Len(dequeued')])>>)
        /\ (wf \in Supervisor /\ pc = "llm" /\ llm_calls' = llm_calls + 1
               /\ ~HasToolCall(result') =>
              Appended = IF Truthy(result'.output_text)
                         THEN <<Prompt("model", result'.output_text)>> ELSE <<>>)
        /\ (wf \in Supervisor /\ pc \in {"tool", "child"} /\ pc' # pc =>
              /\ Len(Appended) = 1
              /\ Appended[1].role = "user"
              /\ startswith(Appended[1].text,
                            TOOL_OUT_PRE \o result.tool_call.name \o TOOL_OUT_POST))
        /\ (wf = "agent" /\ pc = "llm" /\ llm_calls' = llm_calls + 1 =>
              Appended = IF Truthy(last_output'[1].output_text)
                         THEN <<Prompt("assistant", last_output'[1].output_text)>>
                         ELSE <<>>)
        /\ (wf = "agent" /\ pc = "tool" /\ pc' # pc =>
              /\ Len(Appended) = 3
              /\ Appended[1].role = "tool"
              /\ Appended[2] = Prompt("user", facts_update_text(last_output[1].tool_call,
                                                               Appended[1].text))
              /\ Appended[3] = Prompt("user", plan_update_text(tools_used)) ) ]_vars

\* C22 witness: a supervisor history that holds the same tool output twice,
\* each kept as a separate entry, followed by the assistant text of a later
\* decision.
C22_Witness ==
    /\ wf \in Supervisor
    /\ \E i \in 1..(Len(history) - 2) :
          /\ history[i] = history[i + 1]
          /\ startswith(history[i].text, TOOL_OUT_PRE)
          /\ history[i + 2].role = "model"

\* ------------------------------------------------------------------------
\* C23: a supervisor has one call outstanding at a time and waits for it:
\* while a tool or a nested workflow is awaited the only steps are signals,
\* which change the queue and the closed flag and nothing else (no decision
\* call, no dequeue, no publication, no history entry, no other tool); the
\* step that ends the wait appends the tool-result entry of the awaited
\* request, and a nested workflow is awaited for delegation requests only.
C23_ParentWaitsForOutstandingCall ==
    /\ [](wf \in Supervisor /\ pc \in {"tool", "child"} =>
            /\ HasToolCall(result)
            /\ (pc = "child") = is_delegation(result.tool_call.name)
            /\ (pc = "tool") = (child_input = NONE)
            /\ Len(published) = Len(dequeued) - (IF wf = "chat" THEN 1 ELSE 0))
    /\ [][ (pc \in {"tool", "child"} /\ wf \in Supervisor) =>
            ( \/ /\ pc' = pc
                 /\ UNCHANGED <<history, turn_index, latest_response, loopVars, paVars,
                                dequeued, published, llm_calls>>
                 /\ \/ Len(pending_messages') = Len(pending_messages) + 1
                    \/ closed' # closed
                    \/ UNCHANGED <<pending_messages, closed>>
              \/ /\ pc' \notin {"tool", "child"}
                 /\ Len(history') = Len(history) + 1
                 /\ SubSeq(history', 1, Len(history)) = history
                 /\ startswith(history'[Len(history')].text,
                               TOOL_OUT_PRE \o result.tool_call.name \o TOOL_OUT_POST)
                 /\ UNCHANGED <<result, turn_index, dequeued, llm_calls, pending_messages>> )
       ]_vars

\* C23 witness: a chat session awaits the nested workflow of its first turn
\* with a message queued behind it and the session closed.
C23_Witness ==
    /\ wf = "chat"
    /\ pc = "child"
    /\ turn_index = 1
    /\ Len(pending_messages) = 1
    /\ closed
    /\ published = <<>>

C24_SupervisorActsOnToolCall ==
    [][ (pc = "llm" /\ wf \in Supervisor /\ llm_calls' = llm_calls + 1
           /\ HasToolCall(result')) =>
              /\ \/ pc' \in {"tool", "child"} /\ history' = history
                 \/ /\ Len(Appended) = 1
                    /\ Appended[1].role = "user"
                    /\ startswith(Appended[1].text,
                                  TOOL_OUT_PRE \o result'.tool_call.name \o TOOL_OUT_POST)
              /\ last_text' \in {last_text, breaker_message(last_weather_result')} ]_vars

\* ------------------------------------------------------------------------
\* C25: the trace returned by PersonalAssistantWorkflow.run matches the
\* documentation of PersonalAssistantResult: tool_calls lists, in order, the
\* tool invocations the workflow executed, so a decision step extends it by
\* its request unless the request is answered from the repetition cache
\* without running the tool, and nothing else changes it; the result carries
\* that list, and steps is the number of decision calls made, on every exit.
C25_TraceListsExecutedInvocations ==
    /\ [][ wf = "pa" =>
             tool_calls' =
                IF /\ pc = "llm" /\ llm_calls' = llm_calls + 1
                   /\ HasToolCall(result')
                   /\ ~weather_cached(result'.tool_call.name, last_weather_result)
                THEN Append(tool_calls, result'.tool_call)
                ELSE tool_calls ]_vars
    /\ [](wf = "pa" /\ pa_return # <<>> =>
            /\ pa_return[1].tool_calls = tool_calls
            /\ pa_return[1].steps = llm_calls)

\* ------------------------------------------------------------------------
\* The tool outputs recorded in h above index from
ToolOutputsSince(h, from) ==
    {i \in (from + 1)..Len(h) :
        h[i].role = "user" /\ startswith(h[i].text, TOOL_OUT_PRE)}

\* C26: the guardrail state of a chat turn is that turn's own: the step that
\* starts a turn resets the tool-call counter, the cached weather result,
\* the last text and the step count; during a turn the counter counts the
\* tool requests made since the turn's user message, a weather result is
\* cached exactly when a successful get_weather output was recorded since
\* that message, and a get_weather request made before any such output
\* invokes the executor, whatever earlier turns recorded.
C26_GuardrailsResetEveryTurn ==
    /\ [][ (wf = "chat" /\ turn_index' # turn_index) =>
              /\ tool_calls_this_turn' = 0
              /\ last_weather_result' = NONE
              /\ last_text' = <<>>
              /\ step' = 0 ]_vars
    /\ [](wf = "chat" /\ pc \in InTurn =>
            /\ tool_calls_this_turn =
                  Cardinality(ToolOutputsSince(history, TurnStart(history)))
                     + (IF pc \in {"tool", "child"} THEN 1 ELSE 0)
            /\ (last_weather_result # NONE) =
                  (WeatherSuccesses(history, TurnStart(history)) # {}))
    /\ [][ (DecisionRequests(NAME_GET_WEATHER) /\ wf = "chat"
              /\ WeatherSuccesses(history, TurnStart(history)) = {}) =>
              /\ pc' = "tool"
              /\ history' = history ]_vars

\* C26 witness: the first turn recorded a successful weather result, and the
\* get_weather request of the second turn is being executed as that turn's
\* first tool call.
C26_Witness ==
    /\ wf = "chat"
    /\ turn_index = 2
    /\ pc = "tool"
    /\ result.tool_call.name = NAME_GET_WEATHER
    /\ tool_calls_this_turn = 1
    /\ last_weather_result = NONE
    /\ WeatherSuccesses(history, 0) # {}

\* ------------------------------------------------------------------------
\* C27: the input of every decision call of the research agent carries the
\* rendering of the whole history as it is when the call is made: one
\* message per entry, in append order, the assistant text of the previous
\* step and the tool, facts and plan entries of a tool step included; the
\* rendering kept in history_messages is never behind the history when a
\* call is made.  (The supervisors render self.history in the statement that
\* precedes each call and keep no rendering between steps.)
C27_StepInputRendersWholeHistory ==
    (wf = "agent" /\ pc = "llm") =>
        /\ Len(next_input) = 1
        /\ history_messages = to_messages(history)
        /\ next_input[1].history = history_messages
        /\ Len(next_input[1].history) = Len(history)
        /\ \A i \in 1..Len(history) :
              next_input[1].history[i] = <<history[i].role, history[i].text>>

\* C27 witness: a decision call is due after a tool step and a text step, and
\* its input ends with the tool, facts and plan entries followed by the
\* assistant text.
C27_Witness ==
    /\ wf = "agent"
    /\ pc = "llm"
    /\ llm_calls >= 2
    /\ Len(history) >= 7
    /\ history[Len(history)].role = "assistant"
    /\ history[Len(history) - 3].role = "tool"
    /\ next_input[1].history[Len(history)] =
          <<"assistant", history[Len(history)].text>>

\* ------------------------------------------------------------------------
\* The text, once its leading blanks are dropped and its letters are
\* lower-cased, starts with one of the markers
MarkedFinal(text, markers) ==
    \E m \in markers :
        \E n \in 0..Len(text) :
            /\ \A i \in 1..n : text[i] \in WS
            /\ Len(text) >= n + Len(m)
            /\ \A j \in 1..Len(m) : LowerChar(text[n + j]) = m[j]

WellFormedOutput(out, markers) ==
    /\ out.is_final => (Truthy(out.output_text) /\ ~HasToolCall(out))
    /\ HasToolCall(out) => ~out.is_final
    /\ out.is_final = (Truthy(out.output_text) /\ MarkedFinal(out.output_text, markers))

\* C28: every output of the two decision activities is well formed: it is
\* final only with a non-empty output_text and without a tool call, an
\* output with a tool call is never final, and an output is final exactly
\* when its text, trimmed and lower-cased, starts with a final marker:
\* "final answer" or "final summary" for the supervisor, "final answer" for
\* the research agent.
C28_StepOutputsWellFormed ==
    /\ (wf = "llm_step_activity" =>
          WellFormedOutput(result, {MARK_FINAL_ANSWER, MARK_FINAL_SUMMARY}))
    /\ (wf = "company_research_llm_step_activity" =>
          WellFormedOutput(last_output[1], {MARK_FINAL_ANSWER}))

\* C28 witness: the supervisor's activity returned a final output whose text
\* starts with blanks and spells the marker in mixed case.
C28_Witness ==
    /\ wf = "llm_step_activity"
    /\ result.is_final
    /\ ~HasToolCall(result)
    /\ result.output_text[1] \in WS
    /\ result.output_text[3] = "F"
    /\ result.output_text[4] = "i"

\* ------------------------------------------------------------------------
\* The decision result of the step just taken
StepOut ==
    IF wf = "agent" THEN last_output[1] ELSE result

\* What the activities make of a response they cannot read: the response,
\* message or part as text, an empty text, or a tool call without arguments
Degraded(out) ==
    \/ IsEmptyOutput(out)
    \/ out.output_text \in {TXT_STR_RESP, TXT_STR_MSG}
    \/ HasToolCall(out) /\ out.tool_call.arguments = <<>>

\* C29: a decision result that is empty or cannot be parsed never ends the
\* workflow: the step that receives it is not final, raises nothing and
\* goes on as a text step or as a tool call with empty arguments, and the
\* execution of that tool call, unless the wait for it expires, raises
\* nothing either, so that the loop goes on within its step budget.
C29_UnparseableDecisionDegrades ==
    /\ [][ (pc = "llm" /\ wf \in {"chat", "pa", "agent"} /\ llm_calls' = llm_calls + 1
              /\ Degraded(StepOut')) =>
              /\ ~StepOut'.is_final
              /\ pc' \notin {"failed", "pdf"}
              /\ raised' = <<>> ]_vars
    /\ [][ (pc = "tool" /\ wf \in Supervisor /\ result.tool_call.arguments = <<>>
              /\ pc' # "tool" /\ ~TimedOut') =>
              /\ pc' # "failed"
              /\ raised' = <<>>
              /\ TurnGoesOn ]_vars

\* The first half of C29 on its own: the decision step itself
C29_DecisionStepDegrades ==
    [][ (pc = "llm" /\ wf \in {"chat", "pa", "agent"} /\ llm_calls' = llm_calls + 1
           /\ Degraded(StepOut')) =>
           /\ ~StepOut'.is_final
           /\ pc' \notin {"failed", "pdf"}
           /\ raised' = <<>> ]_vars

\* ------------------------------------------------------------------------
\* The last assistant text a workflow holds for its best-effort result:
\* last_text in the supervisors, the text of last_output in the research
\* agent
CapturedText ==
    IF wf = "agent"
    THEN IF last_output = <<>> THEN <<>> ELSE OrElse(last_output[1].output_text, <<>>)
    ELSE last_text

\* A decision step whose output has no tool call, no text and is not final
EmptyStep ==
    /\ pc = "llm"
    /\ wf \in {"chat", "pa", "agent"}
    /\ llm_calls' = llm_calls + 1
    /\ IsEmptyOutput(StepOut')
    /\ ~StepOut'.is_final

\* C30: an empty step is a no-op on the conversation: it appends nothing to
\* the history and changes neither the captured last assistant text nor the
\* tool counters and the cached weather result, and it uses up one step of
\* the budget; a turn or run whose decisions were all empty ends after
\* exactly the budgeted number of calls with the failure text (supervisors)
\* or the empty report (research agent).
C30_EmptyStepIsNoOp ==
    /\ [][ EmptyStep =>
              /\ history' = history
              /\ CapturedText' = CapturedText
              /\ UNCHANGED <<tool_calls_this_turn, tool_calls, tools_used,
                             last_weather_result>>
              /\ (wf = "chat" => step' = step + 1)
              /\ pc' \in {"llm", "wait", "done"}
              /\ (pc' # "llm" =>
                    llm_calls' = (IF wf = "chat" THEN max_steps_per_turn
                                  ELSE IF wf = "pa" THEN pa_max_steps ELSE max_steps)) ]_vars
    /\ [](wf = "chat" /\ pc = "wait" /\ published # <<>>
             /\ TurnStart(history) = Len(history) =>
            /\ llm_calls = max_steps_per_turn
            /\ latest_response[1] = ChatResponse(NO_RESPONSE_TEXT, turn_index))
    /\ [](wf = "pa" /\ pc = "done" /\ Len(history) = 3 =>
            /\ llm_calls = pa_max_steps
            /\ pa_return[1].final_response = NO_RESPONSE_TEXT
            /\ pa_return[1].tool_calls = <<>>)
    /\ [](wf = "agent" /\ pc = "done" /\ Len(history) = 3 =>
            /\ llm_calls = max_steps
            /\ agent_return[1] = AgentResult(<<>>, <<>>))

\* C30 apart from the captured text of the research agent
C30_EmptyStepApartFromAgentText ==
    /\ [][ EmptyStep =>
              /\ history' = history
              /\ (wf \in Supervisor => CapturedText' = CapturedText)
              /\ UNCHANGED <<tool_calls_this_turn, tool_calls, tools_used,
                             last_weather_result>>
              /\ (wf = "chat" => step' = step + 1)
              /\ pc' \in {"llm", "wait", "done"}
              /\ (pc' # "llm" =>
                    llm_calls' = (IF wf = "chat" THEN max_steps_per_turn
                                  ELSE IF wf = "pa" THEN pa_max_steps ELSE max_steps)) ]_vars
    /\ [](wf = "chat" /\ pc = "wait" /\ published # <<>>
             /\ TurnStart(history) = Len(history) =>
            /\ llm_calls = max_steps_per_turn
            /\ latest_response[1] = ChatResponse(NO_RESPONSE_TEXT, turn_index))
    /\ [](wf = "pa" /\ pc = "done" /\ Len(history) = 3 =>
            /\ llm_calls = pa_max_steps
            /\ pa_return[1].final_response = NO_RESPONSE_TEXT
            /\ pa_return[1].tool_calls = <<>>)
    /\ [](wf = "agent" /\ pc = "done" /\ Len(history) = 3 =>
            /\ llm_calls = max_steps
            /\ agent_return[1] = AgentResult(<<>>, <<>>))

\* ------------------------------------------------------------------------
\* get_weather on Oslo gives the two result texts of the other inputs
WeatherTextsAgree ==
    /\ get_weather(TXT_OSLO, TRUE) = TXT_WEATHER_OK
    /\ get_weather(TXT_OSLO, FALSE) = TXT_WEATHER_FAIL

\* ------------------------------------------------------------------------
\* The texts get_weather returns for a lookup that found nothing
FailedLookups ==
    {get_weather(location, FALSE) : location \in Locations}

\* The first get_weather output of the current turn that contains the
\* success text
FirstWeatherSuccess(h) ==
    LET idx == WeatherSuccesses(h, TurnStart(h))
    IN  h[CHOOSE i \in idx : \A j \in idx : i <= j].text

\* C31: the repetition cache holds only a prior successful result: during a
\* turn last_weather_result is absent or is the first get_weather result of
\* the turn that contained "Current weather for"; the result of a failed
\* lookup is never cached; a get_weather request made while the cache is
\* empty is executed; and no published response carries the result of a
\* failed lookup in a synthesized circuit-breaker message.
C31_CacheHoldsOnlySuccess ==
    /\ [](wf = "chat" /\ pc \in InTurn /\ last_weather_result # NONE =>
            /\ WeatherSuccesses(history, TurnStart(history)) # {}
            /\ FirstWeatherSuccess(history) =
                  tool_output_text(NAME_GET_WEATHER, last_weather_result)
            /\ last_weather_result \notin FailedLookups)
    /\ [][ (DecisionRequests(NAME_GET_WEATHER) /\ last_weather_result = NONE) =>
              pc' = "tool" /\ history' = history ]_vars
    /\ [](wf = "chat" /\ latest_response # <<>> =>
            \A failed \in FailedLookups :
                latest_response[1].text # breaker_message(failed))

\* C31 apart from the failed lookups: the cache is the first result of the
\* turn that contains the success text, and requests made while it is empty
\* are executed
C31_CacheIsFirstMarkedResult ==
    /\ [](wf = "chat" /\ pc \in InTurn /\ last_weather_result # NONE =>
            /\ WeatherSuccesses(history, TurnStart(history)) # {}
            /\ FirstWeatherSuccess(history) =
                  tool_output_text(NAME_GET_WEATHER, last_weather_result))
    /\ [][ (DecisionRequests(NAME_GET_WEATHER) /\ last_weather_result = NONE) =>
              pc' = "tool" /\ history' = history ]_vars

\* ------------------------------------------------------------------------
\* C32: the cached get_weather result answers only requests with the
\* arguments of the request that produced it: every get_weather output a
\* supervisor appends, from the cache or from the tool, is a result of
\* get_weather for the arguments of the request it answers, so a request for
\* another location is executed and gets its own result.
C32_CacheReuseMatchesArguments ==
    [][ (/\ pc \in {"llm", "tool"}
         /\ wf \in Supervisor
         /\ Len(history') = Len(history) + 1
         /\ startswith(history'[Len(history')].text,
                       TOOL_OUT_PRE \o NAME_GET_WEATHER \o TOOL_OUT_POST)) =>
           \E tool_response \in ToolResults(result'.tool_call) :
               history'[Len(history')].text =
                   tool_output_text(NAME_GET_WEATHER, tool_response) ]_vars

\* ------------------------------------------------------------------------
\* C33: the published response lags the turn counter by at most one turn:
\* latest_response is absent exactly before the first turn and during it,
\* hence only while turn_index <= 1; otherwise its turn_index is turn_index
\* while no turn is in flight and turn_index - 1 while one is; turn_index is
\* the number of messages dequeued and a step leaves it or adds one.
C33_ResponseLagsByAtMostOne ==
    /\ [](wf = "chat" =>
            /\ turn_index = Len(dequeued)
            /\ (latest_response = <<>>) =
                  (turn_index = 0 \/ (turn_index = 1 /\ pc \in InTurn))
            /\ (latest_response # <<>> =>
                  /\ pc \notin InTurn => latest_response[1].turn_index = turn_index
                  /\ pc \in InTurn => latest_response[1].turn_index = turn_index - 1))
    /\ [][ turn_index' \in {turn_index, turn_index + 1} ]_vars

\* C33 witness: the second turn is in flight and the response on offer is
\* still that of the first.
C33_Witness ==
    /\ wf = "chat"
    /\ pc \in InTurn
    /\ turn_index = 2
    /\ llm_calls >= 1
    /\ latest_response # <<>>
    /\ latest_response[1].turn_index = 1

\* ------------------------------------------------------------------------
\* C34: the signal handlers change only their own field.  A step that
\* lengthens pending_messages appends the one submitted message at its tail,
\* a step that changes closed sets it, and both leave the position of the
\* main loop, the history, turn_index, latest_response and the locals of a
\* turn in flight alone; closed, once set, stays set, and a further close
\* changes nothing; the steps of a turn in flight neither read nor change
\* the queue and the flag, so a signal cannot change what the turn
\* publishes.
C34_SignalsChangeOnlyTheirField ==
    [][ (wf = "chat") =>
          /\ (Len(pending_messages') > Len(pending_messages) =>
                /\ pending_messages' = Append(pending_messages, submitted'[Len(submitted')])
                /\ Len(submitted') = Len(submitted) + 1
                /\ UNCHANGED <<pc, history, turn_index, latest_response, closed, loopVars,
                               dequeued, published, llm_calls>>)
          /\ (closed' # closed =>
                /\ closed'
                /\ UNCHANGED <<pc, history, pending_messages, turn_index, latest_response,
                               loopVars, dequeued, published, llm_calls>>)
          /\ (closed => closed')
          /\ (pc \in InTurn /\ <<pc, history, loopVars, latest_response>>'
                                  # <<pc, history, loopVars, latest_response>> =>
                UNCHANGED <<pending_messages, closed, turn_index>>) ]_vars

\* C34 witness: a tool is awaited in the first turn while a second message
\* is queued and the session has been closed.
C34_Witness ==
    /\ wf = "chat"
    /\ pc = "tool"
    /\ turn_index = 1
    /\ closed
    /\ close_seen = "busy"
    /\ pending_messages = <<UserText(2)>>

\* ------------------------------------------------------------------------
\* C35: no message is lost and no wakeup is missed.  Every message the
\* session accepted is either still queued or was dequeued, in order of
\* arrival, and, the coroutine being resumed fairly and every activity and
\* child returning, the k-th accepted message is eventually answered: it
\* was dequeued as the k-th and latest_response was set with turn_index k.
\* The states in which the message arrived after close, or between the wait
\* condition and the close check, are among those the property starts from.
C35_NoMessageLost ==
    /\ [](wf = "chat" => /\ submitted = dequeued \o pending_messages
                         /\ Len(published) <= Len(dequeued)
                         /\ \A k \in 1..Len(published) : published[k] = k)
    /\ \A k \in 1..MaxMessages :
         (wf = "chat" /\ Len(submitted) >= k) ~> (Len(published) >= k)
    /\ [][ (wf = "chat" /\ published' # published) =>
             /\ published' = Append(published, turn_index)
             /\ dequeued[turn_index] = submitted[turn_index]
             /\ latest_response' # <<>>
             /\ latest_response'[1].turn_index = turn_index ]_vars

\* C35 witness: close was signalled while the session waited with an empty
\* queue, two messages arrived afterwards, and the session returned with
\* the response of turn 2 published.
C35_Witness ==
    /\ wf = "chat"
    /\ pc = "done"
    /\ close_seen = "idle"
    /\ Len(submitted) = 2
    /\ dequeued = submitted
    /\ latest_response # <<>>
    /\ latest_response[1].turn_index = 2

\* ------------------------------------------------------------------------
\* A turn of the session has ended and the next one has not started
BetweenTurns ==
    /\ wf = "chat"
    /\ pc \in {"wait", "check", "done"}
    /\ latest_response # <<>>

\* The turn that just ended was ended by the tool-budget circuit breaker
EndedByBreaker ==
    /\ HasToolCall(result)
    /\ tool_calls_this_turn >= tool_budget
    /\ last_weather_result # NONE

\* C36: the response a turn publishes is in the history as the last
\* assistant entry of that turn before the next turn starts, whether the
\* turn ended by a final signal, by the circuit breaker or by the step
\* budget.
C36_PublishedResponseInHistory ==
    BetweenTurns =>
        LastTextOfRole(history, "model", TurnStart(history)) = latest_response[1].text

\* What the code keeps of C36: the published text is the last assistant
\* entry of the turn when the turn captured a text and was not ended by the
\* circuit breaker; the breaker's message and the failure text are
\* published without being added to the history.
C36_CapturedResponseInHistory ==
    BetweenTurns =>
        LET captured == LastTextOfRole(history, "model", TurnStart(history))
            entries  == {history[i].text : i \in 1..Len(history)}
        IN  IF EndedByBreaker
            THEN /\ latest_response[1].text = breaker_message(last_weather_result)
                 /\ latest_response[1].text \notin entries
            ELSE IF captured = <<>>
            THEN /\ latest_response[1].text = NO_RESPONSE_TEXT
                 /\ NO_RESPONSE_TEXT \notin entries
            ELSE latest_response[1].text = captured

\* ------------------------------------------------------------------------
\* C37: the client and the session form a request/response protocol.  For
\* the k-th message the client sends, its polling loop prints one line, the
\* response of turn k as latest_response holds it when it is the newest
\* published one, never a response of an earlier turn and never a second
\* line; the client prompts again only after that line; last_seen_turn
\* only grows; and, the session and the client being scheduled fairly and
\* every turn completing, the loop ends for every message sent.
C37_CliRequestResponse ==
    /\ [](/\ Len(printed) <= sent
          /\ sent <= Len(printed) + 1
          /\ (cli_pc = "poll" <=> sent = Len(printed) + 1)
          /\ last_seen_turn = (IF printed = <<>> THEN -1 ELSE Len(printed))
          /\ Len(submitted) <= sent
          /\ turn_index <= sent)
    /\ [][ /\ (printed' # printed =>
                 /\ cli_pc = "poll"
                 /\ cli_pc' = "input"
                 /\ latest_response # <<>>
                 /\ latest_response[1].turn_index = sent
                 /\ turn_index = sent
                 /\ published = [k \in 1..sent |-> k]
                 /\ dequeued[sent] = UserText(sent)
                 /\ printed' = Append(printed, assistant_line(latest_response[1].text))
                 /\ last_seen_turn' = sent)
           /\ (last_seen_turn' # last_seen_turn => last_seen_turn' > last_seen_turn)
           /\ (last_seen_turn' # last_seen_turn <=> printed' # printed) ]_vars
    /\ \A k \in 1..MaxMessages :
         (sent >= k) ~> (Len(printed) >= k)

\* C37 witness: two messages were sent and answered, the second by the
\* text of a final summary shown without its marker, and the client left.
C37_Witness ==
    /\ wf = "chat"
    /\ cli_pc = "exited"
    /\ sent = 2
    /\ Len(printed) = 2
    /\ last_seen_turn = 2
    /\ latest_response = <<ChatResponse(TXT_FINAL_SUMMARY_OK, 2)>>
    /\ printed[2] = assistant_line(TXT_FINAL_SUMMARY_OK)
    /\ printed[2] # TXT_FINAL_SUMMARY_OK
    /\ pc = "done"

====
